---- MODULE Spec2Model ----
(***************************************************************************)
(* ReportShield: the audit pipeline of src/engine/__init__.py (run_audit   *)
(* and the functions it calls) and the two HTTP handlers of src/app.py     *)
(* that call it (audit_upload, audit_url).                                 *)
(*                                                                         *)
(* Text is modelled as TLA+ strings, character by character.  TLA+ strings *)
(* are ASCII, so the non-ASCII characters of the source are written with   *)
(* ASCII stand-ins: EN_DASH and EM_DASH for U+2013 / U+2014, "->" for the  *)
(* arrow that starts a v27 line, "--" for the dash of the footer, and the  *)
(* tick / cross / info marks of the analyst view as "[ok]", "[x]", "[i]".  *)
(* A PDF is modelled by what the collaborators return for it: its magic    *)
(* bytes, whether PyMuPDF reports needs_pass, its size class, the text of  *)
(* its text layer (PyMuPDF) and the answer of Azure Document Intelligence. *)
(***************************************************************************)
EXTENDS Integers, Sequences, FiniteSets, TLC

(***************************************************************************)
(* Bounds                                                                  *)
(***************************************************************************)
\* secrets.token_hex(4) draws one of 2^32 ids; the model draws one of these.
NumReqIds == 2
MaxLen == 3
\* the longest sequence of chunks a download of the model streams
MaxChunks == 2

(***************************************************************************)
(* Strings                                                                 *)
(***************************************************************************)
EN_DASH == "~"
EM_DASH == "^"

\* s[i-1:j] of Python for 1-based i: the indices are clamped to the string
Sub(s, i, j) ==
    LET a == IF i < 1 THEN 1 ELSE i
        b == IF j > Len(s) THEN Len(s) ELSE j
    IN IF a > b THEN "" ELSE SubSeq(s, a, b)

Ch(s, i) == Sub(s, i, i)

\* s[i:j] of Python with 0-based i and j
Slice(s, i, j) == Sub(s, i + 1, j)

\* re.search of a literal: the 1-based index of the first occurrence of pat
\* in s at or after position from, 0 when there is none.
FindFrom(s, pat, from) ==
    LET n == Len(s)
        m == Len(pat)
        hits == {i \in from..(n - m + 1) : Sub(s, i, i + m - 1) = pat}
    IN IF hits = {} THEN 0 ELSE CHOOSE i \in hits : \A j \in hits : i <= j

Find(s, pat) == FindFrom(s, pat, 1)

Has(s, pat) == Find(s, pat) # 0

UPPER == "ABCDEFGHIJKLMNOPQRSTUVWXYZ"
LOWER == "abcdefghijklmnopqrstuvwxyz"
DIGITS == "0123456789"

Chars(s) == {Sub(s, i, i) : i \in 1..Len(s)}
UpperSet == Chars(UPPER)
LowerSet == Chars(LOWER)
DigitSet == Chars(DIGITS)

IsUpper(c) == c \in UpperSet
IsLower(c) == c \in LowerSet
IsDigit(c) == c \in DigitSet
IsLetter(c) == IsUpper(c) \/ IsLower(c)
\* \w of the regex engine (ASCII part)
IsWord(c) == IsLetter(c) \/ IsDigit(c) \/ c = "_"
\* \s of the regex engine, and what str.strip() strips
IsSpace(c) == c \in {" ", "\t", "\n", "\r"}

LowerCh(c) == IF IsUpper(c) THEN Ch(LOWER, Find(UPPER, c)) ELSE c

\* the characters lo..hi of s in lower case (the range is halved, which
\* keeps the evaluation shallow on long texts)
RECURSIVE MapLower(_, _, _)
MapLower(s, lo, hi) ==
    IF lo > hi THEN ""
    ELSE IF lo = hi THEN LowerCh(Ch(s, lo))
    ELSE MapLower(s, lo, (lo + hi) \div 2) \o MapLower(s, (lo + hi) \div 2 + 1, hi)

\* str.lower(), which also models matching under re.IGNORECASE
Lower(s) == MapLower(s, 1, Len(s))

\* str.strip()
Strip(s) ==
    LET n == Len(s)
        keep == {i \in 1..n : ~IsSpace(Ch(s, i))}
    IN IF keep = {} THEN ""
       ELSE Sub(s, CHOOSE i \in keep : \A j \in keep : i <= j,
                      CHOOSE i \in keep : \A j \in keep : j <= i)

\* t.replace(en dash, "-").replace(em dash, "-").replace("\r", "\n")
ReplaceCh(c) ==
    IF c = EN_DASH \/ c = EM_DASH THEN "-"
    ELSE IF c = "\r" THEN "\n"
    ELSE c

RECURSIVE ReplaceAll(_, _, _)
ReplaceAll(s, lo, hi) ==
    IF lo > hi THEN ""
    ELSE IF lo = hi THEN ReplaceCh(Ch(s, lo))
    ELSE ReplaceAll(s, lo, (lo + hi) \div 2) \o ReplaceAll(s, (lo + hi) \div 2 + 1, hi)

\* re.sub(r"[ \t]+", " ", t): of a run of blanks only the last one is kept,
\* as a space
BlankCh(s, i) ==
    IF Ch(s, i) \in {" ", "\t"}
    THEN IF i < Len(s) /\ Ch(s, i + 1) \in {" ", "\t"} THEN "" ELSE " "
    ELSE Ch(s, i)

RECURSIVE CollapseBlanks(_, _, _)
CollapseBlanks(s, lo, hi) ==
    IF lo > hi THEN ""
    ELSE IF lo = hi THEN BlankCh(s, lo)
    ELSE CollapseBlanks(s, lo, (lo + hi) \div 2) \o CollapseBlanks(s, (lo + hi) \div 2 + 1, hi)

\* re.sub(r"\n{3,}", "\n\n", t): of a run of newlines the third and later
\* ones are dropped
NewlineCh(s, i) ==
    IF i > 2 /\ Sub(s, i - 2, i) = "\n\n\n" THEN "" ELSE Ch(s, i)

RECURSIVE CollapseNewlines(_, _, _)
CollapseNewlines(s, lo, hi) ==
    IF lo > hi THEN ""
    ELSE IF lo = hi THEN NewlineCh(s, lo)
    ELSE CollapseNewlines(s, lo, (lo + hi) \div 2) \o CollapseNewlines(s, (lo + hi) \div 2 + 1, hi)

\* the newlines tidied before the carriage returns are replaced
normalize_text_newlines_first(t) ==
    LET t1 == CollapseBlanks(t, 1, Len(t))
        t2 == CollapseNewlines(t1, 1, Len(t1))
        t3 == ReplaceAll(t2, 1, Len(t2))
    IN Strip(t3)

normalize_text(t) ==
    LET t1 == ReplaceAll(t, 1, Len(t))
        t2 == CollapseBlanks(t1, 1, Len(t1))
        t3 == CollapseNewlines(t2, 1, Len(t2))
    IN Strip(t3)

(***************************************************************************)
(* Regular-expression building blocks.  Positions are 1-based; a position  *)
(* of Len(s) + 1 is the end of the string.  Matching under re.IGNORECASE   *)
(* is matching a lower-case pattern against Lower(s).                      *)
(***************************************************************************)
Min(S) == CHOOSE x \in S : \A y \in S : x <= y
Max(S) == CHOOSE x \in S : \A y \in S : y <= x

\* every start position of the literal pat in s
Occ(s, pat) == {i \in 1..(Len(s) - Len(pat) + 1) : Sub(s, i, i + Len(pat) - 1) = pat}

\* \b before position i: the character before i is no word character
WordStart(s, i) == i = 1 \/ ~IsWord(Ch(s, i - 1))
\* \b after a match ending before position i
WordEnd(s, i) == i > Len(s) \/ ~IsWord(Ch(s, i))

\* \s* from i: the position after the longest run of white space
SkipSpaces(s, i) == Min({j \in i..(Len(s) + 1) : j = Len(s) + 1 \/ ~IsSpace(Ch(s, j))})

\* [^\n]* from i: the position after the rest of the line
LineEnd(s, i) == Min({j \in i..(Len(s) + 1) : j = Len(s) + 1 \/ Ch(s, j) = "\n"})

\* \d* from i
DigitsEnd(s, i) == Min({j \in i..(Len(s) + 1) : j = Len(s) + 1 \/ ~IsDigit(Ch(s, j))})

\* [\w'\-]* from i
IsNameCh(c) == IsWord(c) \/ c = "'" \/ c = "-"
NameChEnd(s, i) == Min({j \in i..(Len(s) + 1) : j = Len(s) + 1 \/ ~IsNameCh(Ch(s, j))})

\* [:=\-]? from i (greedy: the separator is taken when it is there)
SkipSep(s, i, seps) == IF i <= Len(s) /\ Ch(s, i) \in seps THEN i + 1 ELSE i

\* \s*([^\n]{lo,160}) from p: the start of the captured group, 0 when no
\* split of the white space leaves lo characters on a line.  \s* is greedy,
\* so the capture starts as late as it can.
CaptureStart(s, p, lo) ==
    LET g == SkipSpaces(s, p)
        ok == {q \in p..g : LineEnd(s, q) - q >= lo}
    IN IF ok = {} THEN 0 ELSE Max(ok)

\* the captured group [^\n]{lo,hi} that starts at q
CaptureLineN(s, q, hi) ==
    LET e == LineEnd(s, q)
    IN Sub(s, q, IF e - q > hi THEN q + hi - 1 ELSE e - 1)

CaptureLine(s, q) == CaptureLineN(s, q, 160)

\* s.strip(chars)
StripChars(s, chars) ==
    LET keep == {i \in 1..Len(s) : Ch(s, i) \notin chars}
    IN IF keep = {} THEN "" ELSE Sub(s, Min(keep), Max(keep))

\* re.sub(r"\s{2,}", " ", s)
RECURSIVE CollapseSpaces2(_, _)
CollapseSpaces2(s, i) ==
    IF i > Len(s) THEN ""
    ELSE IF IsSpace(Ch(s, i)) /\ i < Len(s) /\ IsSpace(Ch(s, i + 1))
         THEN " " \o CollapseSpaces2(s, SkipSpaces(s, i))
         ELSE Ch(s, i) \o CollapseSpaces2(s, i + 1)

\* re.sub(r"\s+", " ", s)
RECURSIVE CollapseSpaces1(_, _)
CollapseSpaces1(s, i) ==
    IF i > Len(s) THEN ""
    ELSE IF IsSpace(Ch(s, i))
         THEN " " \o CollapseSpaces1(s, SkipSpaces(s, i))
         ELSE Ch(s, i) \o CollapseSpaces1(s, i + 1)

\* s.replace("\n", " ")
RECURSIVE NewlinesToSpaces(_, _)
NewlinesToSpaces(s, i) ==
    IF i > Len(s) THEN ""
    ELSE (IF Ch(s, i) = "\n" THEN " " ELSE Ch(s, i)) \o NewlinesToSpaces(s, i + 1)

\* the words ws[k..] matched from i, with between two words \s* (gap = 0),
\* \s+ (gap = 1) or \s? (gap = 2): the position after the last word, 0 on
\* failure
RECURSIVE MatchWords(_, _, _, _, _)
MatchWords(s, i, ws, k, gap) ==
    LET w == ws[k]
        e == i + Len(w)
    IN IF i + Len(w) - 1 > Len(s) \/ Sub(s, i, e - 1) # w THEN 0
       ELSE IF k = Len(ws) THEN e
       ELSE LET j == SkipSpaces(s, e)
            IN IF (gap = 0) \/ (gap = 1 /\ j > e) \/ (gap = 2 /\ j <= e + 1)
               THEN MatchWords(s, j, ws, k + 1, gap) ELSE 0

\* <<start, end>> of every match of the words ws in s
WordsOcc(s, ws, gap) ==
    {<<i, MatchWords(s, i, ws, 1, gap)>> : i \in {j \in Occ(s, ws[1]) : MatchWords(s, j, ws, 1, gap) # 0}}

\* the leftmost pair of a set of <<start, end>> pairs (the longest at a tie)
Leftmost(ms) ==
    CHOOSE m \in ms : \A o \in ms : m[1] < o[1] \/ (m[1] = o[1] /\ m[2] >= o[2])

(***************************************************************************)
(* Field extractors                                                        *)
(***************************************************************************)
\* (?:\s+[A-Z][\w'\-]+){0,k} from e: the position after the last word taken
RECURSIVE MoreNames(_, _, _)
MoreNames(s, e, k) ==
    IF k = 0 THEN e
    ELSE LET q == SkipSpaces(s, e)
         IN IF q > e /\ q <= Len(s) /\ IsLetter(Ch(s, q)) /\ NameChEnd(s, q + 1) >= q + 2
            THEN MoreNames(s, NameChEnd(s, q + 1), k - 1)
            ELSE e

\* (Appraiser|Prepared\s+By)\s*[:=\-]?\s*([A-Z][\w'\-]+(?:\s+[A-Z][\w'\-]+){0,3})
\* under re.IGNORECASE: group 2 of the leftmost match, "" when none
AppraiserName(text) ==
    LET low == Lower(text)
        NameAt(e) == SkipSpaces(text, SkipSep(text, SkipSpaces(text, e), {":", "=", "-"}))
        Ok(e) == LET p == NameAt(e)
                 IN p <= Len(text) /\ IsLetter(Ch(text, p)) /\ NameChEnd(text, p + 1) >= p + 2
        ms == {m \in WordsOcc(low, <<"appraiser">>, 1) \cup WordsOcc(low, <<"prepared", "by">>, 1) : Ok(m[2])}
    IN IF ms = {} THEN ""
       ELSE LET p == NameAt(Leftmost(ms)[2])
            IN Sub(text, p, MoreNames(text, NameChEnd(text, p + 1), 3) - 1)

BAD_PARTY_NAMES ==
    {"summary of salient features", "summary", "borrower", "client", "lender",
     "property location", "opinion of value", "prepared by"}

\* re.sub(r"^(Client|Lender)\s*:?[\s]*", "", s, flags=re.IGNORECASE)
StripPartyLabel(s) ==
    LET low == Lower(s)
    IN IF Sub(low, 1, 6) \in {"client", "lender"}
       THEN LET a == SkipSpaces(s, 7)
                b == SkipSpaces(s, SkipSep(s, a, {":"}))
            IN Sub(s, b, Len(s))
       ELSE s

sanitize_party_name(s0) ==
    LET s1 == StripChars(s0, {" ", ":", ";", "-", "|"})
        s2 == Strip(StripPartyLabel(s1))
        s3 == CollapseSpaces2(s2, 1)
    IN IF \E b \in BAD_PARTY_NAMES : Has(Lower(s3), b) THEN "" ELSE s3

\* the lines of s (str.splitlines), from position i
RECURSIVE SplitLines(_, _)
SplitLines(s, i) ==
    IF i > Len(s) THEN <<>>
    ELSE LET e == LineEnd(s, i)
         IN <<Sub(s, i, e - 1)>> \o SplitLines(s, e + 1)

\* the first line of ls that sanitizes to a non-empty name, "" when none
RECURSIVE FirstPartyLine(_, _)
FirstPartyLine(ls, k) ==
    LET FirstOf(name) == IF name # "" THEN name ELSE FirstPartyLine(ls, k + 1)
    IN IF k > Len(ls) THEN "" ELSE FirstOf(sanitize_party_name(ls[k]))

\* 1) Borrower\s*:\s*[^\n]+\n?\s*Lender\s*:\s*([^\n]{2,160}): the start of
\* group 1 for the leftmost match, 0 when none
BorrowerLenderCapture(text) ==
    LET low == Lower(text)
        After(b) == LET c == SkipSpaces(text, b + 8)
                    IN IF c <= Len(text) /\ Ch(text, c) = ":" THEN c + 1 ELSE 0
        \* [^\n]+ is text[x..y-1]; Lender starts right after the white space that follows
        Cap(x, y) == LET l == SkipSpaces(text, y)
                         c == SkipSpaces(text, l + 6)
                     IN IF Sub(low, l, l + 5) = "lender" /\ c <= Len(text) /\ Ch(text, c) = ":"
                        THEN CaptureStart(text, c + 1, 2) ELSE 0
        Splits(b) == IF After(b) = 0 THEN {}
                     ELSE {xy \in (After(b)..SkipSpaces(text, After(b))) \X (1..(Len(text) + 1)) :
                             /\ xy[1] < xy[2]
                             /\ xy[2] <= LineEnd(text, xy[1])
                             /\ Cap(xy[1], xy[2]) # 0}
        bs == {b \in Occ(low, "borrower") : Splits(b) # {}}
    IN IF bs = {} THEN 0
       ELSE LET sp == Splits(Min(bs))
                best == CHOOSE xy \in sp : \A o \in sp :
                            xy[1] > o[1] \/ (xy[1] = o[1] /\ xy[2] >= o[2])
            IN Cap(best[1], best[2])

\* 2) the three inline patterns, in the order the code tries them: the
\* <<start, end>> pairs of the label (with its separator) for pattern k
ClientLabelOcc(text, k) ==
    LET low == Lower(text)
        Sep(e) == LET c == SkipSpaces(text, e)
                  IN IF c <= Len(text) /\ Ch(text, c) \in {":", "-"} THEN c + 1 ELSE 0
    IN IF k = 1
       THEN WordsOcc(low, <<"lender", "/", "client">>, 0) \cup WordsOcc(low, <<"client", "/", "lender">>, 0)
       ELSE LET w == IF k = 2 THEN "client" ELSE "lender"
            IN {<<m[1], Sep(m[2])>> : m \in {o \in WordsOcc(low, <<w>>, 1) : WordStart(low, o[1]) /\ Sep(o[2]) # 0}}

\* the start of group 1 after a label that ends at e (pattern 1 has an
\* optional separator, which the engine gives back when taking it fails)
ClientCapture(text, k, e) ==
    IF k = 1
    THEN LET withSep == CaptureStart(text, SkipSep(text, SkipSpaces(text, e), {":", "-"}), 2)
         IN IF withSep # 0 THEN withSep ELSE CaptureStart(text, e, 2)
    ELSE CaptureStart(text, e, 2)

\* what pattern k of step 2 returns: a name, or "" to go on to the next
ClientByPattern(text, k) ==
    LET FirstOf(name, other) == IF name # "" THEN name ELSE other
        Window(end) == Sub(text, end, IF end + 199 > Len(text) THEN Len(text) ELSE end + 199)
        From(q, g) == FirstOf(sanitize_party_name(g), FirstPartyLine(SplitLines(Window(q + Len(g)), 1), 1))
        At(q) == From(q, CaptureLine(text, q))
        Among(ms) == IF ms = {} THEN "" ELSE At(ClientCapture(text, k, Leftmost(ms)[2]))
    IN Among({m \in ClientLabelOcc(text, k) : ClientCapture(text, k, m[2]) # 0})

\* 3) Lender[^\n]{0,200}\n([^\n]{3,120})
LenderNextLine(text) ==
    LET low == Lower(text)
        Ok(l) == LET e == LineEnd(text, l + 6)
                 IN e <= Len(text) /\ e - (l + 6) <= 200 /\ LineEnd(text, e + 1) - (e + 1) >= 3
        ls == {l \in Occ(low, "lender") : Ok(l)}
    IN IF ls = {} THEN ""
       ELSE LET q == LineEnd(text, Min(ls) + 6) + 1
                e == LineEnd(text, q)
            IN sanitize_party_name(Sub(text, q, IF e - q > 120 THEN q + 119 ELSE e - 1))

extract_client_lender(text) ==
    LET FirstOf(c1, c2, c3, c4, c5) ==
            IF c1 # "" THEN c1
            ELSE IF c2 # "" THEN c2
            ELSE IF c3 # "" THEN c3
            ELSE IF c4 # "" THEN c4
            ELSE c5
        Named(q1) == IF q1 = 0 THEN "" ELSE sanitize_party_name(CaptureLine(text, q1))
    IN FirstOf(Named(BorrowerLenderCapture(text)),
               ClientByPattern(text, 1), ClientByPattern(text, 2), ClientByPattern(text, 3),
               LenderNextLine(text))

BOILERPLATE == {"respectfully", "license or certification", "certification", "limiting conditions"}

\* re.split(r"\b(Respectfully|...)\b", s, flags=re.IGNORECASE)[0]
BeforeBoilerplate(s) ==
    LET low == Lower(s)
        hits == {i \in 1..Len(s) : \E b \in BOILERPLATE :
                    /\ Sub(low, i, i + Len(b) - 1) = b
                    /\ WordStart(low, i)
                    /\ WordEnd(low, i + Len(b))}
    IN IF hits = {} THEN s ELSE Sub(s, 1, Min(hits) - 1)

\* re.split(r"(?<=\.)\s", s, maxsplit=1)[0]
FirstSentence(s) ==
    LET hits == {i \in 2..Len(s) : IsSpace(Ch(s, i)) /\ Ch(s, i - 1) = "."}
    IN IF hits = {} THEN s ELSE Sub(s, 1, Min(hits) - 1)

\* re.sub(r"\bthat is the\b\.?$", "", s, flags=re.IGNORECASE)
DropThatIsThe(s) ==
    LET low == Lower(s)
        body == IF Len(s) > 0 /\ Ch(s, Len(s)) = "." THEN Sub(low, 1, Len(s) - 1) ELSE low
        n == Len(body)
    IN IF n >= 11 /\ Sub(body, n - 10, n) = "that is the" /\ WordStart(low, n - 10)
       THEN Sub(s, 1, n - 11)
       ELSE s

\* s.rstrip()
RStrip(s) ==
    LET keep == {i \in 1..Len(s) : ~IsSpace(Ch(s, i))}
    IN IF keep = {} THEN "" ELSE Sub(s, 1, Max(keep))

clean_sentence(s0) ==
    IF s0 = "" THEN ""
    ELSE LET Ended(s5) ==
                 IF /\ s5 # ""
                    /\ Ch(s5, Len(s5)) # "."
                    /\ \E i \in 1..(Len(s5) - 1) : IsLetter(Ch(s5, i)) /\ IsWord(Ch(s5, i + 1))
                 THEN s5 \o "."
                 ELSE s5
             Capped(s4) == Ended(IF Len(s4) > 240 THEN RStrip(Sub(s4, 1, 240)) ELSE s4)
             Kept(s2) == Capped(Strip(DropThatIsThe(
                             IF Lower(s2) \in {"the.", "this.", "these.", "that."} THEN "" ELSE s2)))
         IN Kept(Strip(FirstSentence(BeforeBoilerplate(NewlinesToSpaces(Strip(s0), 1)))))

\* \bINTENDED\s+USE\s*:\s*([^\n]{2,240})
IntendedUseLabelled(text) ==
    LET low == Lower(text)
        Colon(e) == LET c == SkipSpaces(text, e)
                    IN IF c <= Len(text) /\ Ch(text, c) = ":" THEN c + 1 ELSE 0
        ms == {m \in WordsOcc(low, <<"intended", "use">>, 1) :
                  /\ WordStart(low, m[1])
                  /\ Colon(m[2]) # 0
                  /\ CaptureStart(text, Colon(m[2]), 2) # 0}
    IN IF ms = {} THEN <<FALSE, "">>
       ELSE <<TRUE, CaptureLineN(text, CaptureStart(text, Colon(Leftmost(ms)[2]), 2), 240)>>

\* (The\s+intended\s+use[^\.]{0,240}\.)
IntendedUseSentence(text) ==
    LET low == Lower(text)
        Dot(e) == FindFrom(text, ".", e)
        ms == {m \in WordsOcc(low, <<"the", "intended", "use">>, 1) :
                  Dot(m[2]) # 0 /\ Dot(m[2]) - m[2] <= 240}
    IN IF ms = {} THEN <<FALSE, "">>
       ELSE LET m == Leftmost(ms) IN <<TRUE, Sub(text, m[1], Dot(m[2]))>>

\* Intended\s+Use\s*[:\-]\s*([^\n\.]{2,240})(?:\.|\n)
IntendedUseDashed(text) ==
    LET low == Lower(text)
        Sep(e) == LET c == SkipSpaces(text, e)
                  IN IF c <= Len(text) /\ Ch(text, c) \in {":", "-"} THEN c + 1 ELSE 0
        Stop(q) == Min({j \in q..(Len(text) + 1) : j = Len(text) + 1 \/ Ch(text, j) \in {"\n", "."}})
        Start(p) == LET ok == {q \in p..SkipSpaces(text, p) :
                                  /\ Stop(q) <= Len(text)
                                  /\ Stop(q) - q >= 2
                                  /\ Stop(q) - q <= 240}
                    IN IF ok = {} THEN 0 ELSE Max(ok)
        ms == {m \in WordsOcc(low, <<"intended", "use">>, 1) :
                  Sep(m[2]) # 0 /\ Start(Sep(m[2])) # 0}
    IN IF ms = {} THEN <<FALSE, "">>
       ELSE LET q == Start(Sep(Leftmost(ms)[2])) IN <<TRUE, Sub(text, q, Stop(q) - 1)>>

\* nothing found, nothing reported
extract_intended_use_or_none(text) ==
    LET FirstOf(a, b, c) == IF a[1] THEN a ELSE IF b[1] THEN b ELSE c
        Cleaned(m) == IF m[1] THEN clean_sentence(m[2]) ELSE ""
    IN Cleaned(FirstOf(IntendedUseLabelled(text), IntendedUseSentence(text), IntendedUseDashed(text)))

extract_intended_use(text) ==
    LET FirstOf(a, b, c) == IF a[1] THEN a ELSE IF b[1] THEN b ELSE c
        Cleaned(m) == IF m[1] THEN clean_sentence(m[2]) ELSE "Mortgage Lending."
    IN Cleaned(FirstOf(IntendedUseLabelled(text), IntendedUseSentence(text), IntendedUseDashed(text)))

\* \d{1,2}[\/-]\d{1,2}[\/-]\d{2,4} from p: the position after the date, 0
\* when there is no date at p
NumericDateEnd_short_year(s, p) ==
    LET e1 == DigitsEnd(s, p)
        e2 == DigitsEnd(s, e1 + 1)
        e3 == DigitsEnd(s, e2 + 1)
    IN IF /\ e1 - p \in {1, 2} /\ Ch(s, e1) \in {"/", "-"}
          /\ e2 - (e1 + 1) \in {1, 2} /\ Ch(s, e2) \in {"/", "-"}
          /\ e3 - (e2 + 1) >= 2
       THEN e2 + 3
       ELSE 0

NumericDateEnd(s, p) ==
    LET e1 == DigitsEnd(s, p)
        e2 == DigitsEnd(s, e1 + 1)
        e3 == DigitsEnd(s, e2 + 1)
    IN IF /\ e1 - p \in {1, 2} /\ Ch(s, e1) \in {"/", "-"}
          /\ e2 - (e1 + 1) \in {1, 2} /\ Ch(s, e2) \in {"/", "-"}
          /\ e3 - (e2 + 1) >= 2
       THEN (IF e3 - (e2 + 1) > 4 THEN e2 + 5 ELSE e3)
       ELSE 0

MONTHS ==
    {"january", "february", "march", "april", "may", "june", "july", "august",
     "september", "october", "november", "december"}

\* (January|...|December)\s+\d{1,2},\s*\d{4} from i, between two \b when
\* bounded: the position after the match, 0 when there is none
MonthDateEnd(s, low, i, bounded) ==
    LET ms == {m \in MONTHS : Sub(low, i, i + Len(m) - 1) = m}
        End(m) == LET d == SkipSpaces(s, i + Len(m))
                      e1 == DigitsEnd(s, d)
                      y == SkipSpaces(s, e1 + 1)
                  IN IF /\ d > i + Len(m)
                        /\ e1 - d \in {1, 2} /\ Ch(s, e1) = ","
                        /\ DigitsEnd(s, y) - y >= 4 /\ (bounded => WordEnd(s, y + 4))
                     THEN y + 4 ELSE 0
        ok == {m \in ms : End(m) # 0}
    IN IF (bounded /\ ~WordStart(low, i)) \/ ok = {} THEN 0 ELSE End(CHOOSE m \in ok : TRUE)

\* the three searches of extract_metadata for the effective date
EffectiveDate(text) ==
    LET low == Lower(text)
        DateAt(e) == SkipSpaces(text, SkipSep(text, SkipSpaces(text, e), {":", "=", "-"}))
        lab == {m \in WordsOcc(low, <<"effective", "date">>, 1)
                      \cup WordsOcc(low, <<"report", "effective", "date">>, 1)
                      \cup WordsOcc(low, <<"date", "of", "appraised", "value">>, 1) :
                   NumericDateEnd(text, DateAt(m[2])) # 0}
        asofs == {i \in Occ(low, "as of") :
                     /\ WordStart(low, i)
                     /\ SkipSpaces(text, i + 5) > i + 5
                     /\ NumericDateEnd(text, SkipSpaces(text, i + 5)) # 0}
        mon == {i \in 1..Len(text) : MonthDateEnd(text, low, i, TRUE) # 0}
    IN IF lab # {}
       THEN LET p == DateAt(Leftmost(lab)[2]) IN Sub(text, p, NumericDateEnd(text, p) - 1)
       ELSE IF asofs # {}
       THEN LET p == SkipSpaces(text, Min(asofs) + 5) IN Sub(text, p, NumericDateEnd(text, p) - 1)
       ELSE IF mon # {}
       THEN Sub(text, Min(mon), MonthDateEnd(text, low, Min(mon), TRUE) - 1)
       ELSE ""

\* the labels of the value conclusion, in the order the code tries them, each
\* as the alternatives <<words, gap>> it stands for
VALUE_LABELS ==
    << {<< <<"final", "estimate", "of", "value">>, 1 >>},
       {<< <<"indicated", "value", "by", "sales", "comparison", "approach">>, 1 >>},
       {<< <<"indicated", "value", "by:sales", "comparison", "approach">>, 1 >>,
        << <<"indicated", "value", "by:", "sales", "comparison", "approach">>, 1 >>},
       {<< <<"opinion", "of", "value">>, 1 >>},
       {<< <<"value", "conclusion">>, 0 >>},
       {<< <<"final", "estimate", "of", "value$">>, 1 >>,
        << <<"final", "estimate", "of", "value", "$">>, 1 >>},
       {<< <<"value", "(as-is)">>, 0 >>,
        << <<"value", "(asis)">>, 0 >>,
        << <<"value", "(as is)">>, 0 >>,
        << <<"value", "(as\tis)">>, 0 >>,
        << <<"value", "(as\nis)">>, 0 >>},
       {<< <<"appraised", "value", "(as-is)">>, 1 >>,
        << <<"appraised", "value", "(asis)">>, 1 >>,
        << <<"appraised", "value", "(as is)">>, 1 >>,
        << <<"appraised", "value", "(as\tis)">>, 1 >>,
        << <<"appraised", "value", "(as\nis)">>, 1 >>,
        << <<"appraised", "value(as-is)">>, 1 >>,
        << <<"appraised", "value(asis)">>, 1 >>,
        << <<"appraised", "value(as is)">>, 1 >>,
        << <<"appraised", "value(as\tis)">>, 1 >>,
        << <<"appraised", "value(as\nis)">>, 1 >>},
       {<< <<"as-is", "value">>, 1 >>,
        << <<"asis", "value">>, 1 >>,
        << <<"as is", "value">>, 1 >>,
        << <<"as\tis", "value">>, 1 >>,
        << <<"as\nis", "value">>, 1 >>},
       {<< <<"final", "value">>, 1 >>},
       {<< <<"appraised", "value">>, 1 >>} >>

\* \s*[:=\-]?\s*\$?\s*([\d,]+(?:\.\d{2})?) from e: <<start, end>> of group 1,
\* <<0, 0>> when there is none
AmountAt(s, e) ==
    LET IsAmt(c) == IsDigit(c) \/ c = ","
        p == SkipSpaces(s, SkipSep(s, SkipSpaces(s, SkipSep(s, SkipSpaces(s, e), {":", "=", "-"})), {"$"}))
        a == Min({j \in p..(Len(s) + 1) : j = Len(s) + 1 \/ ~IsAmt(Ch(s, j))})
        cents == Ch(s, a) = "." /\ IsDigit(Ch(s, a + 1)) /\ IsDigit(Ch(s, a + 2))
    IN IF a = p THEN <<0, 0>> ELSE <<p, IF cents THEN a + 3 ELSE a>>

\* the value conclusion of label k and later, "" when no label matches
RECURSIVE ValueConclusionFrom(_, _, _)
ValueConclusionFrom(text, low, k) ==
    IF k > Len(VALUE_LABELS) THEN ""
    ELSE LET ms == {m \in UNION {WordsOcc(low, alt[1], alt[2]) : alt \in VALUE_LABELS[k]} :
                       AmountAt(text, m[2])[1] # 0}
         IN IF ms = {} THEN ValueConclusionFrom(text, low, k + 1)
            ELSE LET g == AmountAt(text, Leftmost(ms)[2])
                 IN "$" \o Sub(text, g[1], g[2] - 1)

ValueConclusion(text) == ValueConclusionFrom(text, Lower(text), 1)

FORM_KEYWORDS ==
    <<"1004", "2055", "1073", "1075", "1025", "1004C", "1004D", "2090", "2095",
      "UNIFORM RESIDENTIAL APPRAISAL REPORT", "URAR", "FNMA", "FHLMC",
      "GP RESIDENTIAL", "GP LAND", "GP CONDO", "GENERAL PURPOSE RESIDENTIAL">>

\* re.search(rf"\b{re.escape(kw)}\b", text, re.IGNORECASE)
HasWord(low, kw) ==
    \E i \in Occ(low, Lower(kw)) : WordStart(low, i) /\ WordEnd(low, i + Len(kw))

RECURSIVE FormKeywordFrom(_, _)
FormKeywordFrom(low, k) ==
    IF k > Len(FORM_KEYWORDS) THEN ""
    ELSE IF HasWord(low, FORM_KEYWORDS[k])
         THEN (IF FORM_KEYWORDS[k] \in {"1004", "UNIFORM RESIDENTIAL APPRAISAL REPORT", "URAR"}
               THEN "URAR (1004)" ELSE FORM_KEYWORDS[k])
         ELSE FormKeywordFrom(low, k + 1)

FormType(text) ==
    LET low == Lower(text)
    IN IF \E m \in WordsOcc(low, <<"uniform", "residential", "appraisal", "report">>, 1) :
             WordStart(low, m[1]) /\ WordEnd(low, m[2])
       THEN "URAR (1004)"
       ELSE FormKeywordFrom(low, 1)

IsAlnum(c) == IsLetter(c) \/ IsDigit(c)

\* 26[\s-]?26[\s-]?[A-Za-z0-9][\s-]?[A-Za-z0-9]{6,8} from i: the position
\* after the match, 0 when there is none
VaCaseEnd(s, i) ==
    LET Opt(j) == IF IsSpace(Ch(s, j)) \/ Ch(s, j) = "-" THEN j + 1 ELSE j
        a == Opt(i + 2)
        b == Opt(a + 2)
        c == Opt(b + 1)
        e == Min({j \in c..(Len(s) + 1) : j = Len(s) + 1 \/ ~IsAlnum(Ch(s, j))})
    IN IF /\ Sub(s, i, i + 1) = "26" /\ Sub(s, a, a + 1) = "26"
          /\ IsAlnum(Ch(s, b)) /\ e - c >= 6
       THEN (IF e - c > 8 THEN c + 8 ELSE e)
       ELSE 0

\* re.sub(r"[^A-Za-z0-9]", "", c)
RECURSIVE OnlyAlnum(_, _)
OnlyAlnum(s, i) ==
    IF i > Len(s) THEN ""
    ELSE (IF IsAlnum(Ch(s, i)) THEN Ch(s, i) ELSE "") \o OnlyAlnum(s, i + 1)

UpperCh(c) == IF IsLower(c) THEN Ch(UPPER, Find(LOWER, c)) ELSE c

\* the middle character kept in the case it has in the text
extract_va_case_keeps_case(text) ==
    LET Formatted(token) == "26-26-" \o Ch(token, 5) \o "-" \o Sub(Sub(token, 6, 12) \o "0000000", 1, 7)
        At(i) == Formatted(OnlyAlnum(Sub(text, i, VaCaseEnd(text, i) - 1), 1))
        Among(hits) == IF hits = {} THEN "" ELSE At(Min(hits))
    IN Among({i \in 1..Len(text) : VaCaseEnd(text, i) # 0})

\* the first candidate of re.findall is the leftmost match of the case number
\* (the optional "VA Case No:" prefix only moves the start of the match); its
\* token always has 11 characters or more and starts with 2626, so the loop
\* returns at the first candidate and the second search is never reached.
extract_va_case(text) ==
    LET Formatted(token) == "26-26-" \o UpperCh(Ch(token, 5)) \o "-" \o Sub(Sub(token, 6, 12) \o "0000000", 1, 7)
        At(i) == Formatted(OnlyAlnum(Sub(text, i, VaCaseEnd(text, i) - 1), 1))
        Among(hits) == IF hits = {} THEN "" ELSE At(Min(hits))
    IN Among({i \in 1..Len(text) : VaCaseEnd(text, i) # 0})

VA_MARKERS ==
    {<<"department", "of", "veterans", "affairs">>, <<"va", "loan">>, <<"va", "case">>,
     <<"va", "appraisal">>, <<"lapp">>, <<"tas">>}

\* the VA branch deciding by the indicators alone
VaLoan_by_indicators(text) ==
    LET Decided(low, case) ==
            IF \E ws \in VA_MARKERS : \E m \in WordsOcc(low, ws, 1) :
                  WordStart(low, m[1]) /\ WordEnd(low, m[2])
            THEN <<"Yes", case>>
            ELSE <<"No", case>>
    IN Decided(Lower(text), extract_va_case(text))

\* the VA branch of extract_metadata: <<is_va_loan, va_case_number>>
VaLoan(text) ==
    LET Decided(low, case) ==
            IF case # "" THEN <<"Yes", case>>
            ELSE IF \E ws \in VA_MARKERS : \E m \in WordsOcc(low, ws, 1) :
                       WordStart(low, m[1]) /\ WordEnd(low, m[2])
            THEN <<"Yes", "">>
            ELSE <<"No", "">>
    IN Decided(Lower(text), extract_va_case(text))

\* str.title() of the matched words
RECURSIVE Title(_, _)
Title(s, i) ==
    IF i > Len(s) THEN ""
    ELSE (IF i = 1 \/ ~IsLetter(Ch(s, i - 1)) THEN UpperCh(Ch(s, i)) ELSE LowerCh(Ch(s, i)))
         \o Title(s, i + 1)

\* Of the check marks the code accepts only "X" is an ASCII character; the
\* others cannot occur in the texts of this model.
extract_rights_appraised(text) ==
    LET Block(m, e) == Sub(text, m[1], IF e - m[2] > 200 THEN m[2] + 199 ELSE e - 1)
        BlockAt(m) == Block(m, LineEnd(text, m[2]))
        BlockOf(labs) == IF labs = {} THEN "" ELSE BlockAt(Leftmost(labs))
        Marked(blow, opt, j) == Sub(blow, j, j + Len(opt) - 1) = opt
        picked(blow, opt) ==
            \/ \E i \in Occ(blow, "x") : Marked(blow, opt, SkipSpaces(blow, i + 1))
            \/ \E i \in Occ(blow, opt) : Ch(blow, SkipSpaces(blow, i + Len(opt))) = "x"
        Words(slow) == {m \in WordsOcc(slow, <<"fee", "simple">>, 1) \cup WordsOcc(slow, <<"leasehold">>, 1) :
                           WordStart(slow, m[1]) /\ WordEnd(slow, m[2])}
        Found(src, m) == Title(Sub(src, m[1], m[2] - 1), 1)
        Fallback(src, fb) == IF fb # {} THEN Found(src, Leftmost(fb)) ELSE ""
        Chosen(src, blow) ==
            IF picked(blow, "fee simple") THEN "Fee Simple"
            ELSE IF picked(blow, "leasehold") THEN "Leasehold"
            ELSE Fallback(src, Words(Lower(src)))
        In(block) == Chosen(IF block # "" THEN block ELSE text, Lower(block))
        From(low) == In(BlockOf(WordsOcc(low, <<"rights", "appraised">>, 1)
                                  \cup WordsOcc(low, <<"property", "rights", "appraised">>, 1)))
    IN From(Lower(text))

\* The keys purpose and assignment_type of the dictionary are left out: no
\* line of run_audit or of the composers reads them.
extract_metadata(text) ==
    [file_name |-> "[Not found in file]",
     effective_date |-> EffectiveDate(text),
     form_type |-> FormType(text),
     appraiser_name |-> AppraiserName(text),
     client |-> extract_client_lender(text),
     intended_use |-> extract_intended_use(text),
     rights_appraised |-> extract_rights_appraised(text),
     value_conclusion |-> ValueConclusion(text),
     is_va_loan |-> VaLoan(text)[1],
     va_case_number |-> VaLoan(text)[2]]

(***************************************************************************)
(* Rule checks                                                             *)
(***************************************************************************)
\* re.search of the words ws (white space between them) with \b on both
\* sides, under re.IGNORECASE
HasPhrase(text, ws) ==
    LET low == Lower(text)
    IN \E m \in WordsOcc(low, ws, 1) : WordStart(low, m[1]) /\ WordEnd(low, m[2])

\* re.search of the words ws with no \b, under re.IGNORECASE
HasWords(text, ws, gap) == WordsOcc(Lower(text), ws, gap) # {}

HasMpr(text) ==
    HasPhrase(text, <<"minimum", "property", "requirements">>) \/ HasPhrase(text, <<"mpr">>)

FLAG_MC == "Missing 1004MC addendum."
FLAG_VA == "No VA MPR references found despite VA loan indicators."
FLAG_SIG == "Signature and date inconsistencies noted."

\* Tidewater and the Notice of Value taken for references to the MPR
check_flags_tidewater(text, md) ==
    LET has_mc == HasPhrase(text, <<"1004mc">>) \/ HasPhrase(text, <<"market", "conditions", "addendum">>)
        has_mpr == HasMpr(text) \/ HasPhrase(text, <<"tidewater">>) \/ HasPhrase(text, <<"notice", "of", "value">>)
        sig_loc == HasWords(text, <<"signature">>, 1)
        date_loc == \/ HasWords(text, <<"signed", "date">>, 1)
                    \/ HasWords(text, <<"signature", "date">>, 1)
                    \/ HasWords(text, <<"report", "signed">>, 1)
    IN (IF ~has_mc THEN <<FLAG_MC>> ELSE <<>>)
       \o (IF md.is_va_loan = "Yes" /\ ~has_mpr THEN <<FLAG_VA>> ELSE <<>>)
       \o (IF sig_loc /\ ~date_loc THEN <<FLAG_SIG>> ELSE <<>>)

\* the VA rule evaluated first
check_flags_va_first(text, md) ==
    LET has_mc == HasPhrase(text, <<"1004mc">>) \/ HasPhrase(text, <<"market", "conditions", "addendum">>)
        sig_loc == HasWords(text, <<"signature">>, 1)
        date_loc == \/ HasWords(text, <<"signed", "date">>, 1)
                    \/ HasWords(text, <<"signature", "date">>, 1)
                    \/ HasWords(text, <<"report", "signed">>, 1)
    IN (IF md.is_va_loan = "Yes" /\ ~HasMpr(text) THEN <<FLAG_VA>> ELSE <<>>)
       \o (IF ~has_mc THEN <<FLAG_MC>> ELSE <<>>)
       \o (IF sig_loc /\ ~date_loc THEN <<FLAG_SIG>> ELSE <<>>)

check_flags(text, md) ==
    LET has_mc == HasPhrase(text, <<"1004mc">>) \/ HasPhrase(text, <<"market", "conditions", "addendum">>)
        sig_loc == HasWords(text, <<"signature">>, 1)
        date_loc == \/ HasWords(text, <<"signed", "date">>, 1)
                    \/ HasWords(text, <<"signature", "date">>, 1)
                    \/ HasWords(text, <<"report", "signed">>, 1)
    IN (IF ~has_mc THEN <<FLAG_MC>> ELSE <<>>)
       \o (IF md.is_va_loan = "Yes" /\ ~HasMpr(text) THEN <<FLAG_VA>> ELSE <<>>)
       \o (IF sig_loc /\ ~date_loc THEN <<FLAG_SIG>> ELSE <<>>)

\* the slice forgotten
summarize_top_flags_all(flags, k) == flags

\* flags[:k]
summarize_top_flags(flags, k) == SubSeq(flags, 1, IF Len(flags) < k THEN Len(flags) ELSE k)

(***************************************************************************)
(* Output composers                                                        *)
(***************************************************************************)
ENGINE_VERSION == "1.6"

\* "\n".join(lines)
RECURSIVE Join(_, _)
Join(lines, k) ==
    IF k > Len(lines) THEN ""
    ELSE IF k = Len(lines) THEN lines[k]
    ELSE lines[k] \o "\n" \o Join(lines, k + 1)

\* [f"-> {f}" for f in flags]
RECURSIVE Arrows(_, _)
Arrows(flags, k) == IF k > Len(flags) THEN <<>> ELSE <<"-> " \o flags[k]>> \o Arrows(flags, k + 1)

\* x or default
Or_redacting(x, default) == IF x = "" THEN default ELSE "[Redacted]"

Or(x, default) == IF x = "" THEN default ELSE x

SECTION_1 == "[SECTION 1] REPORT METADATA SNAPSHOT"
SECTION_2 == "[SECTION 2] SUMMARY OF COMPLIANCE FLAGS"
SECTION_3 == "[SECTION 3] DETAILED FLAGS AND REFERENCES"
SECTION_4_renumbered == "[SECTION 5] TOP FLAGS (CONDENSED)"
SECTION_4 == "[SECTION 4] TOP FLAGS (CONDENSED)"
SECTION_5 == "[SECTION 5] ADDITIONAL NOTES"

\* the lines of compose_output_v27, before they are joined
V27Lines(md, flags, show_footer) ==
    <<SECTION_1,
      "-> File Name = " \o Or(md.file_name, "[Not found in file]"),
      "-> Effective Date = " \o Or(md.effective_date, "[Not found]"),
      "-> Form Type = " \o Or(md.form_type, "[Not found]"),
      "-> Appraiser Name = " \o Or(md.appraiser_name, "[Not found]"),
      "-> Intended Use / Client = " \o Or(md.intended_use, "[Not found]") \o " / " \o Or(md.client, "[Not found]"),
      "-> Is VA Loan = " \o Or(md.is_va_loan, "No")>>
    \o (IF md.va_case_number # "" THEN <<"-> VA Case Number = " \o md.va_case_number>> ELSE <<>>)
    \o <<"", SECTION_2>>
    \o (IF flags # <<>> THEN Arrows(flags, 1)
        ELSE <<"-> No material compliance flags detected by automated checks.">>)
    \o <<"", SECTION_3>>
    \o (IF flags # <<>> THEN Arrows(flags, 1) ELSE <<"-> None.">>)
    \o <<"", SECTION_4>>
    \o (IF summarize_top_flags(flags, 3) # <<>> THEN Arrows(summarize_top_flags(flags, 3), 1)
        ELSE <<"-> None.">>)
    \o <<"", SECTION_5,
         "-> Automated extraction powered by Azure Document Intelligence. Manual review recommended.">>
    \o (IF show_footer THEN <<"", "-- Engine v" \o ENGINE_VERSION>> ELSE <<>>)

\* a value that was not found printed as it is held
compose_output_v27_none(md, flags, show_footer) ==
    Join(V27Lines([f \in DOMAIN md |-> IF md[f] = "" THEN "None" ELSE md[f]], flags, show_footer), 1)

compose_output_v27(md, flags, show_footer) == Join(V27Lines(md, flags, show_footer), 1)

(***************************************************************************)
(* Evidence pins                                                           *)
(***************************************************************************)
RECURSIVE IntToStr(_)
IntToStr(n) == IF n < 10 THEN Ch(DIGITS, n + 1) ELSE IntToStr(n \div 10) \o Ch(DIGITS, (n % 10) + 1)

\* Indicated\s+Value\s+by[:\s]*Sales\s+Comparison
IndicatedValueOcc(low) ==
    LET Skip(e) == Min({j \in e..(Len(low) + 1) :
                           j = Len(low) + 1 \/ ~(IsSpace(Ch(low, j)) \/ Ch(low, j) = ":")})
    IN {<<m[1], MatchWords(low, Skip(m[2]), <<"sales", "comparison">>, 1, 1)>> :
          m \in {o \in WordsOcc(low, <<"indicated", "value", "by">>, 1) :
                    MatchWords(low, Skip(o[2]), <<"sales", "comparison">>, 1, 1) # 0}}

\* VA\s*(?:Case|Loan)\s*(?:No\.?|Number)?\s*[:#-]
VaLabelOcc(low) ==
    LET Mark(e) == LET c == SkipSpaces(low, e)
                   IN IF Ch(low, c) \in {":", "#", "-"} THEN c + 1 ELSE 0
        Opt(e) == LET c == SkipSpaces(low, e)
                  IN IF Sub(low, c, c + 5) = "number" THEN c + 6
                     ELSE IF Sub(low, c, c + 2) = "no." THEN c + 3
                     ELSE IF Sub(low, c, c + 1) = "no" THEN c + 2
                     ELSE e
        End(e) == IF Mark(Opt(e)) # 0 THEN Mark(Opt(e)) ELSE Mark(e)
    IN {<<m[1], End(m[2])>> :
          m \in {o \in WordsOcc(low, <<"va", "case">>, 0) \cup WordsOcc(low, <<"va", "loan">>, 0) :
                    End(o[2]) # 0}}

\* the matches <<start, end>> of the patterns of gather_core_evidence in the
\* lower-cased page; each key has its patterns in the order they are tried
EvidenceOcc(low, key, k) ==
    IF key = "value" /\ k = 1
    THEN IndicatedValueOcc(low) \cup WordsOcc(low, <<"appraised", "value">>, 1)
           \cup WordsOcc(low, <<"final", "estimate", "of", "value">>, 1)
    ELSE IF key = "value" /\ k = 2
    THEN WordsOcc(low, <<"comparable", "summary">>, 1)
           \cup WordsOcc(low, <<"estimated", "indicated", "value">>, 1)
    ELSE IF key = "effective_date" /\ k = 1
    THEN WordsOcc(low, <<"effective", "date">>, 1)
           \cup WordsOcc(low, <<"date", "of", "appraised", "value">>, 1)
    ELSE IF key = "rights" /\ k = 1
    THEN WordsOcc(low, <<"property", "rights", "appraised">>, 1)
           \cup WordsOcc(low, <<"rights", "appraised">>, 1)
           \cup WordsOcc(low, <<"fee", "simple">>, 1) \cup WordsOcc(low, <<"leasehold">>, 1)
    ELSE IF key = "intended_use" /\ k = 1
    THEN {<<m[1], SkipSpaces(low, m[2]) + 1>> :
            m \in {o \in WordsOcc(low, <<"intended", "use">>, 1) : Ch(low, SkipSpaces(low, o[2])) = ":"}}
           \cup WordsOcc(low, <<"the", "intended", "use">>, 1)
    ELSE IF key = "va_case" /\ k = 1
    THEN VaLabelOcc(low)
    ELSE {}

EvidencePatterns(key) == IF key = "value" THEN 2 ELSE 1

\* the snippet of find_evidence around the match m of page number i
Snippet(page, i, m) ==
    LET start == IF m[1] - 1 - 80 < 0 THEN 0 ELSE m[1] - 1 - 80
        end == IF m[2] - 1 + 80 > Len(page) THEN Len(page) ELSE m[2] - 1 + 80
        snip == Strip(CollapseSpaces1(Slice(page, start, end), 1))
    IN "p." \o IntToStr(i) \o ": " \o (IF Len(snip) > 140 THEN Sub(snip, 1, 138) \o "..." ELSE snip)

\* find_evidence(pages, patterns): pages in order, patterns in order
RECURSIVE FindEvidenceFrom(_, _, _, _)
FindEvidenceFrom(pages, key, i, k) ==
    IF i > Len(pages) THEN ""
    ELSE IF k > EvidencePatterns(key) THEN FindEvidenceFrom(pages, key, i + 1, 1)
    ELSE LET ms == EvidenceOcc(Lower(pages[i]), key, k)
         IN IF ms # {} THEN Snippet(pages[i], i, Leftmost(ms))
            ELSE FindEvidenceFrom(pages, key, i, k + 1)

find_evidence(pages, key) == FindEvidenceFrom(pages, key, 1, 1)

\* The entry "client" of the dictionary is left out: compose_output_analyst
\* never reads it.
gather_core_evidence(pages, md) ==
    LET Found(key) == IF key = "va_case" /\ md.va_case_number = "" THEN "" ELSE find_evidence(pages, key)
        Gathered(ev) ==
            [value |-> ev["value"],
             effective_date |-> ev["effective_date"],
             rights |-> ev["rights"],
             intended_use |-> ev["intended_use"],
             va_case |-> ev["va_case"]]
    IN Gathered([key \in {"value", "effective_date", "rights", "intended_use", "va_case"} |-> Found(key)])

with_evidence(line, ev, show_evidence) ==
    IF show_evidence /\ ev # "" THEN line \o "  (Evidence: " \o ev \o ")" ELSE line

(***************************************************************************)
(* The analyst view.  The parsers of the comparable grid, of the subject   *)
(* address and of the living area (parse_subject_basics, parse_comps_quick,*)
(* summarize_comps_ranges, find_gross_net_percentages, find_adjustments    *)
(* and the duplicate search) are modelled for the texts GridFree describes,*)
(* on which none of their patterns can match; every document of this model *)
(* is such a text (narrative pages, no sales grid).                        *)
(***************************************************************************)
GridFree(text) ==
    LET low == Lower(text)
    IN /\ \A i \in Occ(low, "comp") :
             LET a == SkipSpaces(low, i + 4)
                 b == SkipSpaces(low, SkipSep(low, a, {"#"}))
             IN ~IsDigit(Ch(low, b)) /\ ~IsDigit(Ch(low, SkipSep(low, a, {"#"})))
       /\ ~Has(low, "%") /\ ~Has(low, "$") /\ ~Has(low, ";")
       /\ ~Has(low, "gla") /\ ~Has(low, "gross") /\ ~Has(low, "grade")
       /\ ~Has(low, "miles") /\ ~Has(low, "dom") /\ ~Has(low, "days")
       /\ \A i \in Occ(low, "mi") : ~(WordEnd(low, i + 2) \/ Ch(low, i + 2) = ".")
       /\ ~Has(low, "comparable sale")
       /\ \A i \in Occ(low, ",") :
             LET a == SkipSpaces(low, i + 1)
                 z == SkipSpaces(low, a + 2)
             IN ~(IsLetter(Ch(low, a)) /\ IsLetter(Ch(low, a + 1)) /\ DigitsEnd(low, z) - z >= 5)
       /\ \A i \in Occ(low, "/") :
             ~(DigitsEnd(low, i + 1) - (i + 1) >= 4 /\ Ch(low, SkipSpaces(low, i + 5)) \in {"-", EN_DASH})

parse_subject_basics(text) == [subject_gla |-> "", subject_address |-> ""]

parse_comps_quick(text) == [comp_gla |-> <<>>, miles |-> <<>>, dom |-> <<>>]

summarize_comps_ranges(text) == [comps_used |-> "", adj_range |-> "", sale_date_range |-> ""]

\* \bBorrower\s*[:=\-]\s*[A-Z][\w'&\s,]+
BorrowerOk(text) ==
    LET low == Lower(text)
        IsIn(c) == IsWord(c) \/ IsSpace(c) \/ c \in {"'", "&", ","}
    IN \E i \in Occ(low, "borrower") :
          LET c == SkipSpaces(low, i + 8)
              n == SkipSpaces(low, c + 1)
          IN /\ WordStart(low, i)
             /\ Ch(low, c) \in {":", "=", "-"}
             /\ IsLetter(Ch(low, n))
             /\ IsIn(Ch(low, n + 1))

\* Highest\s*&?\s*Best\s*Use.*?(present\s*use|as\s*improved|vacant)
\*   |Is\s+the\s+highest\s+and\s+best\s+use.*?\bYes\b
HbuOk(text) ==
    LET low == Lower(text)
        labs == WordsOcc(low, <<"highest", "&", "best", "use">>, 0)
                  \cup WordsOcc(low, <<"highest", "best", "use">>, 0)
        goals == WordsOcc(low, <<"present", "use">>, 0) \cup WordsOcc(low, <<"as", "improved">>, 0)
                   \cup WordsOcc(low, <<"vacant">>, 0)
        asks == WordsOcc(low, <<"is", "the", "highest", "and", "best", "use">>, 1)
        yes == {<<i, i + 3>> : i \in {j \in Occ(low, "yes") : WordStart(low, j) /\ WordEnd(low, j + 3)}}
        SameLine(m, g) == g[1] >= m[2] /\ g[1] <= LineEnd(low, m[2])
    IN \/ \E m \in labs : \E g \in goals : SameLine(m, g)
       \/ \E m \in asks : \E g \in yes : SameLine(m, g)

\* the date that follows one of the labels: group 2 (numeric) or group 3
\* (month name) of the leftmost match, "" when there is none
LabelledDate(text, labels) ==
    LET low == Lower(text)
        DateAt(e) == SkipSpaces(text, SkipSep(text, SkipSpaces(text, e), {":", "=", "-"}))
        End(e) == IF NumericDateEnd(text, DateAt(e)) # 0 THEN NumericDateEnd(text, DateAt(e))
                  ELSE MonthDateEnd(text, low, DateAt(e), FALSE)
        ms == {m \in UNION {WordsOcc(low, ws, 1) : ws \in labels} : End(m[2]) # 0}
    IN IF ms = {} THEN ""
       ELSE LET e == Leftmost(ms)[2] IN Sub(text, DateAt(e), End(e) - 1)

EFF_LABELS == {<<"effective", "date">>, <<"date", "of", "appraised", "value">>}
INSP_LABELS == {<<"date", "of", "inspection">>, <<"inspection", "date">>, <<"inspected", "on">>}

AdjSupport(text) ==
    \/ HasWords(text, <<"paired", "sales">>, 1) \/ HasWords(text, <<"market", "support">>, 1)
    \/ HasWords(text, <<"contributory", "value">>, 1) \/ HasWords(text, <<"extracted", "from", "sales">>, 1)

\* str.capitalize() of a lower-case label
Capitalize(s) == UpperCh(Ch(s, 1)) \o Sub(s, 2, Len(s))

RECURSIVE JoinWith(_, _, _)
JoinWith(xs, sep, k) ==
    IF k > Len(xs) THEN ""
    ELSE IF k = Len(xs) THEN xs[k]
    ELSE xs[k] \o sep \o JoinWith(xs, sep, k + 1)

DISCLAIMER_LINE == "[!] Automated audit. Use professional judgment when making final report decisions."

ANALYST_HEADERS ==
    <<"EXECUTIVE SUMMARY", "CORE FACTS", "INTERNAL CONSISTENCY REVIEW",
      "USPAP / VA / FIRREA FLAG CHECK", "COMP ANALYSIS REVIEW", "SUMMARY METADATA">>

USPAP_ADJ == "[USPAP SR 1-4, 2-2(a)(viii)] Adjustments lack clear paired-sales/market support"

\* the footer of the analyst view
FooterLine_fallback_id(req_id) == "-- Engine v" \o ENGINE_VERSION \o " * req:" \o "req"

FooterLine(req_id) == "-- Engine v" \o ENGINE_VERSION \o " * req:" \o req_id

\* the lines of compose_output_analyst, before they are joined
AnalystLines(md, text, pages, req_id, show_evidence, show_footer) ==
    LET Rendered(borrower_ok, hbu_ok, garage_any, eff_val, insp_val, adj_support, ev, low) ==
    LET subj == parse_subject_basics(text)
        address_ok == FALSE
        client_ok == md.client # ""
        date_compared == eff_val # "" /\ insp_val # ""
        eff_match == date_compared /\ eff_val = insp_val
        compq == parse_comps_quick(text)
        B(x) == IF x THEN 1 ELSE 0
        passes == B(address_ok) + B(borrower_ok) + B(client_ok) + B(hbu_ok) + B(garage_any)
                    + B(date_compared /\ eff_match) + B(compq.comp_gla # <<>>)
        flags_cnt == B(~address_ok) + B(~adj_support)
        gaps == (IF ~client_ok THEN <<"Client/Lender">> ELSE <<>>)
                  \o (IF ~date_compared THEN <<"Inspection date">> ELSE <<>>)
                  \o (IF compq.comp_gla = <<>> THEN <<"Comp GLA range">> ELSE <<>>)
        top_flags == (IF ~address_ok THEN <<"Subject address consistency not confirmed">> ELSE <<>>)
                       \o (IF ~adj_support THEN <<USPAP_ADJ>> ELSE <<>>)
        comp_summary == summarize_comps_ranges(text)
        W(line, e) == with_evidence(line, e, show_evidence)
        Bracket(label) == IF Has(low, label) THEN "[ok] Subject bracketed for " \o label
                          ELSE "[i] " \o Capitalize(label) \o " bracketing not confirmed"
    IN <<ANALYST_HEADERS[1],
         "Pass: " \o IntToStr(passes) \o " * Flags: " \o IntToStr(flags_cnt)>>
       \o (IF top_flags # <<>> THEN <<"Top flags: " \o JoinWith(top_flags, "; ", 1)>> ELSE <<>>)
       \o (IF gaps # <<>> THEN <<"Data gaps: " \o JoinWith(gaps, ", ", 1)>> ELSE <<>>)
       \o <<"", ANALYST_HEADERS[2]>>
       \o (IF md.value_conclusion # "" THEN <<W("Value Conclusion: " \o md.value_conclusion, ev.value)>> ELSE <<>>)
       \o (IF md.effective_date # "" THEN <<W("Effective Date: " \o md.effective_date, ev.effective_date)>> ELSE <<>>)
       \o (IF md.form_type # "" THEN <<"Form Type: " \o md.form_type>> ELSE <<>>)
       \o (IF md.rights_appraised # "" THEN <<W("Rights Appraised: " \o md.rights_appraised, ev.rights)>> ELSE <<>>)
       \o <<"Client / Lender: " \o Or(md.client, "N/A")>>
       \o (IF md.intended_use # "" THEN <<W("Intended Use: " \o md.intended_use, ev.intended_use)>> ELSE <<>>)
       \o (IF md.is_va_loan = "Yes" /\ md.va_case_number = ""
           THEN <<"VA indicators present; VA case number not found.">> ELSE <<>>)
       \o (IF md.va_case_number # "" THEN <<W("VA Case Number: " \o md.va_case_number, ev.va_case)>> ELSE <<>>)
       \o <<"", ANALYST_HEADERS[3],
            IF address_ok THEN "[ok] Subject property address is consistent across all sections"
            ELSE "[x] Subject address consistency not confirmed",
            IF borrower_ok /\ client_ok THEN "[ok] Borrower and client/lender names are consistent throughout"
            ELSE "[x] Borrower/client consistency not confirmed",
            IF hbu_ok THEN "[ok] Highest & Best Use is stated and supported"
            ELSE "[x] Highest & Best Use statement/support not found",
            IF garage_any THEN "[ok] Garage/carport count consistent across improvement section and sales grid"
            ELSE "[i] No garage/carport information found",
            IF ~date_compared THEN "[i] Not enough date information to compare effective vs. inspection date"
            ELSE IF eff_match THEN "[ok] Effective date and inspection date match across all references"
            ELSE "[x] Effective vs. inspection date mismatch",
            "", ANALYST_HEADERS[4],
            IF hbu_ok THEN "[ok] [USPAP SR 1-3] Highest & Best Use is stated clearly"
            ELSE "[x] [USPAP SR 1-3] H&BU statement/support not confirmed",
            IF adj_support THEN "[ok] [USPAP SR 1-4, 2-2(a)(viii)] Adjustments supported by market discussion"
            ELSE "[x] " \o USPAP_ADJ,
            "[ok] [USPAP SR 1-1(c)] No contradictory or unverifiable market claims detected",
            IF md.is_va_loan = "Yes"
            THEN (IF HasMpr(text) THEN "[ok] VA MPR references present"
                  ELSE "[x] VA indicators present without MPR references")
            ELSE "[ok] No VA-specific requirements apply (non-VA report)",
            "[ok] No unclear \"subject-to\" language or missing scope of work",
            "", ANALYST_HEADERS[5],
            "[i] Not enough data to confirm GLA bracketing (comp GLA range missing)",
            Bracket("site"), Bracket("age"), Bracket("condition"), Bracket("quality"),
            "[ok] Gross/net adjustments within typical ranges (no 25% gross exceedance detected)",
            "[ok] No duplicate comps detected",
            "[ok] No unsupported garage adjustments detected",
            "", ANALYST_HEADERS[6],
            "Comparables Used: " \o Or(comp_summary.comps_used, "N/A"),
            "Adjusted Value Range: " \o Or(comp_summary.adj_range, "N/A"),
            "Sale Date Range: " \o Or(comp_summary.sale_date_range, "N/A"),
            "", DISCLAIMER_LINE>>
       \o (IF show_footer THEN <<"", FooterLine(req_id)>> ELSE <<>>)
    IN Rendered(BorrowerOk(text), HbuOk(text),
                HasPhrase(text, <<"garage">>) \/ HasPhrase(text, <<"carport">>),
                LabelledDate(text, EFF_LABELS), LabelledDate(text, INSP_LABELS),
                AdjSupport(text), gather_core_evidence(pages, md), Lower(text))

compose_output_analyst(md, text, pages, req_id, show_evidence, show_footer) ==
    Join(AnalystLines(md, text, pages, req_id, show_evidence, show_footer), 1)

(***************************************************************************)
(* Documents, files and requests of the model                              *)
(***************************************************************************)
RECURSIVE Repeat(_, _)
Repeat(s, n) ==
    IF n = 0 THEN ""
    ELSE IF n = 1 THEN s
    ELSE Repeat(s, n \div 2) \o Repeat(s, n - n \div 2)

\* a VA report with the appraiser and the client named, as the OCR returns it
DOC_VA == "Appraiser:  Jane Doe\r\nClient: Acme Bank\r\n\r\n\r\nVA Loan\tSignature"
\* a conventional report without names
DOC_CONV == "Uniform Residential Appraisal Report\nEffective Date: 03-04-24\nIntended Use: Mortgage lending.\n1004MC"
\* a VA report with a case number, the client on the line after its label
DOC_CASE == "Prepared By: Al Roe.\nLender/Client:\nFirst Bank\nVA Case No: 26 26 a 1234567890\nMPR\nOpinion of Value: 250,000"
\* a long narrative that names its comparables: not sparse
DOC_LONG == "Client: Big Credit Union\n" \o Repeat("Comparable properties were reviewed by the appraiser. ", 15)
\* a blank scan
DOC_BLANK == " \n"
\* a VA report that names Tidewater and the Notice of Value, not the MPR
DOC_TIDEWATER == "Department of Veterans Affairs\nTidewater initiated; Notice of Value pending.\nSignature Date: 03/04/2024"

Docs == {DOC_VA, DOC_CONV, DOC_CASE, DOC_LONG, DOC_BLANK}

SPARSE_LEN == 800
SIZE_GUARD == 3800000

\* A file: magic says whether the bytes start with %PDF, size is len(raw),
\* fitz is what fitz.open does with the bytes ("ok", "needs_pass", or the
\* class of the exception it raises: PyMuPDF raises RuntimeError or one of
\* its subclasses for a broken document in some versions and another
\* exception in others), layered says whether the pages have a text layer,
\* ocr is what Azure answers ("content", "lines", or "fail") and doc is the
\* text of the document.
File(magic, size, fitz, layered, ocr, doc) ==
    [magic |-> magic, size |-> size, fitz |-> fitz, layered |-> layered, ocr |-> ocr, doc |-> doc]

F_TEXT == File(TRUE, 1000, "ok", TRUE, "content", DOC_VA)
F_TEXT_NO_OCR == File(TRUE, 1000, "ok", TRUE, "fail", DOC_VA)
F_SCAN == File(TRUE, 1000, "ok", FALSE, "content", DOC_CASE)
F_SCAN_LINES == File(TRUE, 1000, "ok", FALSE, "lines", DOC_CONV)
F_SCAN_NO_OCR == File(TRUE, 1000, "ok", FALSE, "fail", DOC_CONV)
F_BLANK == File(TRUE, 1000, "ok", FALSE, "content", DOC_BLANK)
F_TIDEWATER == File(TRUE, 1000, "ok", TRUE, "content", DOC_TIDEWATER)
F_BIG == File(TRUE, SIZE_GUARD + 1, "ok", TRUE, "content", DOC_LONG)
F_ENCRYPTED == File(TRUE, 1000, "needs_pass", FALSE, "content", DOC_VA)
F_BROKEN == File(TRUE, 1000, "RuntimeError", FALSE, "fail", DOC_CONV)
F_BROKEN_OCR == File(TRUE, 1000, "ValueError", FALSE, "content", DOC_CONV)
F_IMAGE == File(FALSE, 1000, "ValueError", FALSE, "content", DOC_VA)
F_NOISE == File(FALSE, 1000, "ValueError", FALSE, "fail", DOC_BLANK)
\* a PDF with bytes before its header, which fitz opens
F_PREFIXED == File(FALSE, 1000, "ok", TRUE, "fail", DOC_VA)
\* a PDF whose text layer holds white space only, which Azure does not read
F_BLANK_NO_OCR == File(TRUE, 1000, "ok", TRUE, "fail", DOC_BLANK)

Files ==
    {F_TEXT, F_TEXT_NO_OCR, F_SCAN, F_SCAN_LINES, F_SCAN_NO_OCR, F_BLANK, F_TIDEWATER, F_BIG,
     F_ENCRYPTED, F_BROKEN, F_BROKEN_OCR, F_IMAGE, F_NOISE, F_PREFIXED, F_BLANK_NO_OCR}

\* page.get_text("text") of every page: the model's files have their text on
\* one page and an empty second page
Layer(f) == IF f.layered THEN <<f.doc, "">> ELSE <<"">>

\* result.content, or the lines of result.pages when there is no content
OcrParts(f) ==
    IF f.ocr = "content" THEN <<f.doc>> ELSE SplitLines(f.doc, 1)

AZURE_ERROR == "(InvalidRequest) The file is corrupted or format is unsupported."
FITZ_ERROR == "cannot open broken document"
ENCRYPTED_ERROR == "Encrypted/PW-protected PDF is not supported."
EXTRACTION_ERROR == "Azure analysis failed and local text extraction also failed. Try a different or smaller PDF."

\* the style argument as the caller gives it ("" is None)
Styles == {"", "v27", "analyst", "va"}

NoFile == File(FALSE, 0, "ValueError", FALSE, "fail", DOC_BLANK)

(***************************************************************************)
(* The download of /audit_url                                              *)
(***************************************************************************)
ALLOWED_DOWNLOAD_HOSTS == <<"wixstatic.com", "wixmp.com", "filesusr.com", "wixsite.com">>

\* MAX_CONTENT_LENGTH: 12 MB
MAX_CONTENT_LENGTH == 12582912

\* s.endswith(suffix)
EndsWith(s, suffix) == Len(s) >= Len(suffix) /\ Sub(s, Len(s) - Len(suffix) + 1, Len(s)) = suffix

\* _host_in_allowlist(hostname): the host is an allowed host or a subdomain
\* of one
host_in_allowlist(hostname) ==
    \E i \in DOMAIN ALLOWED_DOWNLOAD_HOSTS :
        \/ Lower(hostname) = Lower(ALLOWED_DOWNLOAD_HOSTS[i])
        \/ EndsWith(Lower(hostname), "." \o Lower(ALLOWED_DOWNLOAD_HOSTS[i]))

\* the parts of a dotted address, as strings
RECURSIVE DottedParts(_, _)
DottedParts(ip, from) ==
    LET dot == FindFrom(ip, ".", from)
    IN IF dot = 0 THEN <<Sub(ip, from, Len(ip))>>
       ELSE <<Sub(ip, from, dot - 1)>> \o DottedParts(ip, dot + 1)

\* int(s) of a string of digits
RECURSIVE DecimalValue(_)
DecimalValue(s) ==
    IF s = "" THEN 0
    ELSE 10 * DecimalValue(Sub(s, 1, Len(s) - 1)) + (Find(DIGITS, Ch(s, Len(s))) - 1)

\* ipaddress.ip_address(ip) accepts the string as an IPv4 address: four
\* decimal parts of one to three digits, each at most 255
IsIPv4(ip) ==
    LET parts == DottedParts(ip, 1)
    IN /\ Len(parts) = 4
       /\ \A i \in 1..4 :
              /\ Len(parts[i]) \in 1..3
              /\ \A k \in 1..Len(parts[i]) : IsDigit(Ch(parts[i], k))
              /\ DecimalValue(parts[i]) <= 255

\* _is_private_ip(ip): is_private, is_loopback, is_link_local, is_reserved
\* or is_multicast of the address, by the networks the ipaddress module
\* lists for IPv4 (0/8, 10/8, 127/8, 169.254/16, 172.16/12, 192.0.0/29,
\* 192.0.0.170/31, 192.0.2/24, 192.168/16, 198.18/15, 198.51.100/24,
\* 203.0.113/24, 224/4, 240/4); a string that is no address counts as
\* private.  The model's addresses are IPv4.
is_private_ip(ip) ==
    LET Private(a, b, c, d) ==
            \/ a \in {0, 10, 127}
            \/ a = 169 /\ b = 254
            \/ a = 172 /\ b \in 16..31
            \/ a = 192 /\ b = 0 /\ c = 0 /\ d \in (0..7) \cup {170, 171}
            \/ a = 192 /\ b = 0 /\ c = 2
            \/ a = 192 /\ b = 168
            \/ a = 198 /\ b \in {18, 19}
            \/ a = 198 /\ b = 51 /\ c = 100
            \/ a = 203 /\ b = 0 /\ c = 113
            \/ a >= 224
        Octets(v) == Private(v[1], v[2], v[3], v[4])
        Of(parts) == Octets([i \in 1..4 |-> DecimalValue(parts[i])])
    IN IF ~IsIPv4(ip) THEN TRUE ELSE Of(DottedParts(ip, 1))

\* A url and what the network does with it.  scheme and host are what
\* urlparse finds ("" for a url without host), pdf says whether the url ends
\* with ".pdf", dns is the set of addresses socket.getaddrinfo returns for
\* the host when the guard asks ({} when it raises), gaierror is the text of
\* that exception, connect is the address the HTTP client reaches when it
\* resolves the host for itself ("" when it reaches none), redirect is the
\* address of the host that the Location header of a 3xx answer names (""
\* when the answer is no redirect), status and ctype are the status code
\* and the Content-Type of the last answer to GET.  head_status and
\* content_length are the status code and the Content-Length header of the
\* last answer to HEAD ("" for an answer without the header): a url made
\* here answers HEAD as it answers GET, without Content-Length.  chunks are
\* the lengths of the chunks r.iter_content(8192) yields, in order; <<>>
\* stands for a body that arrives in one chunk.
Url(scheme, host, pdf, dns, connect, redirect, status, ctype) ==
    [scheme |-> scheme, host |-> host, pdf |-> pdf, dns |-> dns, connect |-> connect,
     redirect |-> redirect, status |-> status, ctype |-> ctype,
     head_status |-> status, content_length |-> "", chunks |-> <<>>]

GAI_ERROR == "[Errno -2] Name or service not known"
CONNECTION_ERROR == "HTTPSConnectionPool: Max retries exceeded"

PUBLIC_ADDRESS == "93.184.216.34"
WIX_ADDRESS == "34.117.60.144"
PRIVATE_ADDRESS == "10.0.0.7"
LOOPBACK_ADDRESS == "127.0.0.1"
LINK_LOCAL_ADDRESS == "169.254.169.254"
RESERVED_ADDRESS == "240.0.0.1"
MULTICAST_ADDRESS == "224.0.0.251"

\* a file of an allowlisted host
U_WIX == Url("https", "static.wixstatic.com", TRUE, {WIX_ADDRESS}, WIX_ADDRESS, "", 200, "application/octet-stream")
\* a file of a public host that is not allowlisted
U_PUBLIC == Url("https", "files.example.org", TRUE, {PUBLIC_ADDRESS}, PUBLIC_ADDRESS, "", 200, "application/pdf")
\* a url that is not http(s), and one without host
U_FTP == Url("ftp", "files.example.org", TRUE, {PUBLIC_ADDRESS}, PUBLIC_ADDRESS, "", 200, "application/pdf")
U_NO_HOST == Url("https", "", TRUE, {}, "", "", 200, "application/pdf")
\* hosts that resolve to an address inside
U_PRIVATE == Url("http", "intranet.example.org", TRUE, {PRIVATE_ADDRESS}, PRIVATE_ADDRESS, "", 200, "application/pdf")
U_LOOPBACK == Url("http", "localhost", TRUE, {LOOPBACK_ADDRESS}, LOOPBACK_ADDRESS, "", 200, "application/pdf")
U_LINK_LOCAL == Url("http", "metadata.example.org", FALSE, {LINK_LOCAL_ADDRESS}, LINK_LOCAL_ADDRESS, "", 200, "application/pdf")
U_RESERVED == Url("http", "reserved.example.org", TRUE, {RESERVED_ADDRESS}, RESERVED_ADDRESS, "", 200, "application/pdf")
U_MULTICAST == Url("http", "mdns.example.org", TRUE, {MULTICAST_ADDRESS}, MULTICAST_ADDRESS, "", 200, "application/pdf")
\* a host with a public and a private address
U_MIXED == Url("https", "mixed.example.org", TRUE, {PUBLIC_ADDRESS, PRIVATE_ADDRESS}, PUBLIC_ADDRESS, "", 200, "application/pdf")
\* a host that does not resolve
U_UNRESOLVED == Url("https", "nowhere.invalid", TRUE, {}, "", "", 200, "application/pdf")
\* a public host that answers with a redirect to a host inside
U_REDIRECT == Url("https", "files.example.org", TRUE, {PUBLIC_ADDRESS}, PUBLIC_ADDRESS, LINK_LOCAL_ADDRESS, 200, "application/pdf")
\* a host whose name resolves to a public address for the guard and to a
\* private one for the HTTP client (the record changed in between)
U_REBIND == Url("https", "rebind.example.org", TRUE, {PUBLIC_ADDRESS}, PRIVATE_ADDRESS, "", 200, "application/pdf")
\* a public host that does not accept connections
U_DOWN == Url("https", "down.example.org", TRUE, {PUBLIC_ADDRESS}, "", "", 200, "application/pdf")
\* answers that are no file
U_404 == Url("https", "files.example.org", TRUE, {PUBLIC_ADDRESS}, PUBLIC_ADDRESS, "", 404, "text/html")
U_HTML == Url("https", "files.example.org", FALSE, {PUBLIC_ADDRESS}, PUBLIC_ADDRESS, "", 200, "text/html; charset=utf-8")

\* a host that does not allow HEAD and serves the file to GET
U_NO_HEAD == [U_PUBLIC EXCEPT !.head_status = 405]
\* a host whose answer to HEAD announces 20,000,000 bytes
U_LARGE == [U_PUBLIC EXCEPT !.content_length = "20000000"]

\* the urls whose download ends with an exception, or that the guard should stop
BadUrls ==
    {U_FTP, U_NO_HOST, U_PRIVATE, U_LOOPBACK, U_LINK_LOCAL, U_RESERVED, U_MULTICAST, U_MIXED,
     U_UNRESOLVED, U_DOWN, U_404, U_HTML}

\* _resolve_and_check(hostname): "" or the message of the ValueError it
\* raises.  The loop runs over a set; the urls of the model resolve to at
\* most one private address, so that its order does not matter.
resolve_and_check(u) ==
    LET Blocked(ips) == IF ips = {} THEN "" ELSE "Blocked private IP: " \o (CHOOSE ip \in ips : TRUE)
    IN IF u.dns = {} THEN "Could not resolve host: " \o u.host \o " (" \o GAI_ERROR \o ")"
       ELSE Blocked({ip \in u.dns : is_private_ip(ip)})

\* One HTTP request as it reaches the network: the method and the address
\* of the host it is sent to.
HttpRequest(method, to) == [method |-> method, to |-> to]

\* requests.head(u, allow_redirects=True) and requests.get(u): the request
\* to the host and, when the answer is a redirect, the request to the host
\* that the answer names (requests.get follows redirects by default)
Followed(method, u) ==
    IF u.connect = "" THEN <<>>
    ELSE <<HttpRequest(method, u.connect)>>
         \o (IF u.redirect # "" THEN <<HttpRequest(method, u.redirect)>> ELSE <<>>)

HEAD_FAILED == "HEAD failed: "
TOO_LARGE == "Remote file is larger than allowed limit."
EXCEEDED == "Downloaded file exceeded size limit."

\* The try block of _download_url_to_bytes: "" or the message of the
\* exception raised inside it, by requests.head, by the check of the status
\* code, by int(cl) or by the check of the Content-Length.
head_check(u, max_bytes) ==
    LET Announced(cl) ==
            IF cl = "" THEN ""
            ELSE IF \E k \in 1..Len(cl) : ~IsDigit(Ch(cl, k))
            THEN "invalid literal for int() with base 10"
            ELSE IF DecimalValue(cl) > max_bytes THEN TOO_LARGE
            ELSE ""
    IN IF u.connect = "" THEN CONNECTION_ERROR
       ELSE IF u.head_status >= 400 THEN HEAD_FAILED \o IntToStr(u.head_status)
       ELSE Announced(u.content_length)

\* the chunks r.iter_content(8192) yields for the url u that serves the
\* file f, as their lengths
iter_content(u, f) ==
    IF u.chunks # <<>> THEN u.chunks
    ELSE IF f.size = 0 THEN <<>>
    ELSE <<f.size>>

\* the loop with the limit tested before the chunk is counted
RECURSIVE read_stream_checks_first(_, _, _, _)
read_stream_checks_first(chunks, k, read_total, max_bytes) ==
    IF k > Len(chunks) THEN [error |-> "", length |-> read_total]
    ELSE IF chunks[k] = 0 THEN read_stream_checks_first(chunks, k + 1, read_total, max_bytes)
    ELSE IF read_total > max_bytes THEN [error |-> EXCEEDED, length |-> read_total]
    ELSE read_stream_checks_first(chunks, k + 1, read_total + chunks[k], max_bytes)

\* The loop over r.iter_content(8192) from the chunk k on, read_total bytes
\* read and written to buf so far: an empty chunk is skipped, a chunk is
\* written and counted, and the loop raises as soon as the count is over
\* max_bytes.  length is the length of buf.getvalue() when the loop ends.
RECURSIVE read_stream(_, _, _, _)
read_stream(chunks, k, read_total, max_bytes) ==
    LET Counted(total) ==
            IF total > max_bytes THEN [error |-> EXCEEDED, length |-> total]
            ELSE read_stream(chunks, k + 1, total, max_bytes)
    IN IF k > Len(chunks) THEN [error |-> "", length |-> read_total]
       ELSE IF chunks[k] = 0 THEN read_stream(chunks, k + 1, read_total, max_bytes)
       ELSE Counted(read_total + chunks[k])

\* _download_url_to_bytes(u, max_bytes) for a url that serves the file f:
\* error is "" or the message of the exception it raises, sent are the HTTP
\* requests it has sent by then, length is the length of the bytes it
\* returns.  Whatever the try block around the HEAD request raises, the
\* ValueErrors of its status and Content-Length checks included, is caught
\* and dropped (except Exception: pass), and the GET request follows.
download_url_to_bytes(u, f, max_bytes) ==
    LET Failed(message, requests) == [error |-> message, sent |-> requests, length |-> 0]
        Read(body) ==
            [error |-> body.error, sent |-> Followed("HEAD", u) \o Followed("GET", u),
             length |-> IF body.error = "" THEN body.length ELSE 0]
        Fetched(ctype) ==
            IF u.connect = "" THEN Failed(CONNECTION_ERROR, Followed("HEAD", u) \o Followed("GET", u))
            ELSE IF u.status >= 400
            THEN Failed("GET failed: " \o IntToStr(u.status), Followed("HEAD", u) \o Followed("GET", u))
            ELSE IF ~Has(ctype, "pdf") /\ ~Has(ctype, "application/octet-stream") /\ ~u.pdf
            THEN Failed("Unexpected content-type: " \o ctype, Followed("HEAD", u) \o Followed("GET", u))
            ELSE Read(read_stream(iter_content(u, f), 1, 0, max_bytes))
        Tried(caught) == Fetched(Lower(u.ctype))
        Guarded(blocked) ==
            IF blocked # "" THEN Failed(blocked, <<>>) ELSE Tried(head_check(u, max_bytes))
    IN IF u.scheme \notin {"http", "https"}
       THEN Failed("Only http/https URLs are allowed.", <<>>)
       ELSE IF u.host = ""
       THEN Failed("URL must include a host.", <<>>)
       ELSE Guarded(IF host_in_allowlist(u.host) THEN "" ELSE resolve_and_check(u))

\* A request: route is the entry ("audit", "audit_url", or "direct" for a
\* caller of run_audit inside the process), given says whether the form has a
\* file (or the body a url), url is the url of the body and what the network
\* does with it, file is what the form holds or the url serves, filename is
\* the name the file object has.
Request(route, given, url, file, filename, style) ==
    [route |-> route, given |-> given, url |-> url, file |-> file,
     filename |-> filename, style |-> style]

\* the url of a request that has none
NoUrl == Url("", "", FALSE, {}, "", "", 0, "")

NoRequest == Request("", FALSE, NoUrl, NoFile, "", "")

\* the files sent through the routes
HttpFiles == {F_TEXT, F_SCAN_NO_OCR, F_ENCRYPTED, F_BROKEN}

\* Bodies as the chunks they arrive in: every sequence of one to MaxChunks
\* chunks that are empty, one byte, half the limit or the limit long.
CHUNK_LENGTHS == {0, 1, MAX_CONTENT_LENGTH \div 2, MAX_CONTENT_LENGTH}
ChunkSeqs == UNION {[1..n -> CHUNK_LENGTHS] : n \in 1..MaxChunks}

\* the length of the body that arrives in the chunks from the k-th on
RECURSIVE BodyLength(_, _)
BodyLength(chunks, k) == IF k > Len(chunks) THEN 0 ELSE chunks[k] + BodyLength(chunks, k + 1)

\* the url of an allowlisted host that streams these chunks, and the bytes
\* they make up (no PDF, and nothing that OCR or fitz can read)
Streaming(chunks) == [U_WIX EXCEPT !.chunks = chunks]
Streamed(chunks) == [F_NOISE EXCEPT !.size = BodyLength(chunks, 1)]

\* a host whose answer to HEAD announces 20,000,000 bytes and whose answer
\* to GET streams more than the limit
U_LARGE_BODY == [U_LARGE EXCEPT !.chunks = <<MAX_CONTENT_LENGTH, MAX_CONTENT_LENGTH>>]

Requests ==
    {Request("direct", TRUE, NoUrl, f, "", "") : f \in Files}
    \cup {Request("direct", TRUE, NoUrl, F_TEXT, "", st) : st \in Styles}
    \cup {Request("direct", TRUE, NoUrl, F_SCAN, "", "v27")}
    \cup {Request("audit", TRUE, NoUrl, f, "report.pdf", "analyst") : f \in HttpFiles}
    \cup {Request("audit", TRUE, NoUrl, F_TEXT, "report.pdf", "v27")}
    \cup {Request("audit", FALSE, NoUrl, NoFile, "", "analyst")}
    \cup {Request("audit_url", TRUE, U_WIX, f, "report.pdf", "analyst") : f \in HttpFiles}
    \cup {Request("audit_url", TRUE, U_WIX, F_IMAGE, "scan.png.pdf", "v27")}
    \cup {Request("audit_url", TRUE, u, F_TEXT, "report.pdf", "analyst") :
              u \in {U_PUBLIC, U_REDIRECT, U_REBIND, U_NO_HEAD, U_LARGE}}
    \cup {Request("audit_url", TRUE, U_LARGE_BODY, Streamed(U_LARGE_BODY.chunks), "report.pdf", "analyst")}
    \cup {Request("audit_url", TRUE, Streaming(c), Streamed(c), "report.pdf", "analyst") : c \in ChunkSeqs}
    \cup {Request("audit_url", TRUE, u, NoFile, "", "analyst") : u \in BadUrls}
    \cup {Request("audit_url", FALSE, NoUrl, NoFile, "", "analyst")}

\* the requests of the runs with two workers
ConcRequests ==
    {Request("direct", TRUE, NoUrl, F_TEXT_NO_OCR, "", ""),
     Request("direct", TRUE, NoUrl, F_SCAN_LINES, "", "v27"),
     Request("direct", TRUE, NoUrl, F_ENCRYPTED, "", "")}

\* A deployment: the settings the module reads from the environment at
\* import, the files of the system directory, and whether the service is
\* meant to serve the public.
MISSING == "<missing>"
Deployments ==
    {[OUTPUT_STYLE |-> "analyst", SHOW_VERBOSE_EVIDENCE |-> TRUE, SHOW_FOOTER |-> TRUE, public_mode |-> TRUE,
      system_docs |-> [exec_schematic |-> "SYSTEM EXECUTION SCHEMATIC (v5.9)", output_rules |-> "OUTPUT RULES (v2.7)"]],
     [OUTPUT_STYLE |-> "v27", SHOW_VERBOSE_EVIDENCE |-> FALSE, SHOW_FOOTER |-> FALSE, public_mode |-> FALSE,
      system_docs |-> [exec_schematic |-> "SYSTEM EXECUTION SCHEMATIC (v5.9)", output_rules |-> MISSING]],
     [OUTPUT_STYLE |-> "analyst", SHOW_VERBOSE_EVIDENCE |-> TRUE, SHOW_FOOTER |-> FALSE, public_mode |-> TRUE,
      system_docs |-> [exec_schematic |-> "SYSTEM EXECUTION SCHEMATIC", output_rules |-> "OUTPUT RULES (v2.7)"]]}

(***************************************************************************)
(* State                                                                   *)
(***************************************************************************)
Workers == {"w1", "w2"}

\* secrets.token_hex(4): eight hexadecimal digits
ReqIds == {"0000000" \o IntToStr(i) : i \in 1..NumReqIds}

\* load_system_text(): the text of each file, "" for a file that cannot be read
load_system_text(docs) ==
    [exec_schematic |-> IF docs.exec_schematic = MISSING THEN "" ELSE docs.exec_schematic,
     output_rules |-> IF docs.output_rules = MISSING THEN "" ELSE docs.output_rules]

NoMd == [file_name |-> "", effective_date |-> "", form_type |-> "", appraiser_name |-> "",
         client |-> "", intended_use |-> "", rights_appraised |-> "", value_conclusion |-> "",
         is_va_loan |-> "", va_case_number |-> ""]

NoResponse == [status |-> 0, mimetype |-> "", ok |-> FALSE, body |-> "", req |-> ""]

VARIABLES
    OUTPUT_STYLE,           \* module global, read from the environment at import
    SHOW_VERBOSE_EVIDENCE,  \* module global
    SHOW_FOOTER,            \* module global
    doc_client,             \* module global: the Azure client
    system_docs,            \* the files of SYSTEM_DIR
    public_mode,            \* whether the deployment is meant to serve the public
    pc,                     \* per worker: where its request stands
    request,                \* per worker: the request it serves
    http_req,               \* per worker: req_id of the route
    req_id,                 \* per worker: req_id of run_audit
    data,                   \* per worker: "raw" or "slim", the bytes sent to Azure
    text,                   \* per worker: text of extract_text_with_azure
    md,                     \* per worker: metadata
    flags,                  \* per worker: flags of check_flags
    pages,                  \* per worker: page texts
    result,                 \* per worker: the string run_audit returns
    exc,                    \* per worker: message of the exception run_audit raises
    response,               \* per worker: the HTTP response
    calls,                  \* per worker: the calls made so far, in order
    sent,                   \* per worker: the HTTP requests its download has sent, in order
    alone_fn,               \* the function of the module called on its own, "" for none
    alone_arg,              \* the argument of that call
    alone_ret               \* what that call returned

globals == <<OUTPUT_STYLE, SHOW_VERBOSE_EVIDENCE, SHOW_FOOTER, doc_client>>
environment == <<system_docs, public_mode>>
locals == <<pc, request, http_req, req_id, data, text, md, flags, pages, result, exc, response, calls>>
standalone == <<alone_fn, alone_arg, alone_ret>>
vars == <<globals, environment, locals, sent, standalone>>

\* the argument and the result of a call of a function on its own
Arg(kind, t, parts) == [kind |-> kind, text |-> t, parts |-> parts]
NoArg == Arg("", "", <<>>)
NoRet == [text |-> "", again |-> "", md |-> NoMd, flags |-> <<>>, analyst |-> "", audited |-> ""]

\* the settings of a deployment
InitDeployment(d) ==
    /\ OUTPUT_STYLE = d.OUTPUT_STYLE
    /\ SHOW_VERBOSE_EVIDENCE = d.SHOW_VERBOSE_EVIDENCE
    /\ SHOW_FOOTER = d.SHOW_FOOTER
    /\ system_docs = d.system_docs
    /\ public_mode = d.public_mode
    /\ doc_client = "DocumentAnalysisClient"

\* no worker has a request
InitWorkers ==
    /\ pc = [w \in Workers |-> "idle"]
    /\ request = [w \in Workers |-> NoRequest]
    /\ http_req = [w \in Workers |-> ""]
    /\ req_id = [w \in Workers |-> ""]
    /\ data = [w \in Workers |-> ""]
    /\ text = [w \in Workers |-> ""]
    /\ md = [w \in Workers |-> NoMd]
    /\ flags = [w \in Workers |-> <<>>]
    /\ pages = [w \in Workers |-> <<>>]
    /\ result = [w \in Workers |-> ""]
    /\ exc = [w \in Workers |-> ""]
    /\ response = [w \in Workers |-> NoResponse]
    /\ calls = [w \in Workers |-> <<>>]
    /\ sent = [w \in Workers |-> <<>>]

Init ==
    /\ \E d \in Deployments : InitDeployment(d)
    /\ InitWorkers
    /\ alone_fn = "" /\ alone_arg = NoArg /\ alone_ret = NoRet

\* one call: fn is the function, stage is what it does ("extract", "rules"
\* or "render") and by is the function it is called from
Call(fn, stage, by) == [fn |-> fn, stage |-> stage, by |-> by]

\* _json_error(message, code, req_id)
json_error(message, code, rid) ==
    [status |-> code, mimetype |-> "application/json", ok |-> FALSE, body |-> message, req |-> rid]

(***************************************************************************)
(* The routes of app.py up to their call of run_audit                      *)
(***************************************************************************)
\* POST /audit: the form has a file or the request ends with a 400
audit_upload(w, R) ==
    /\ pc[w] = "idle"
    /\ \E r \in R, rid \in ReqIds :
        /\ r.route = "audit"
        /\ request' = [request EXCEPT ![w] = r]
        /\ http_req' = [http_req EXCEPT ![w] = rid]
        /\ IF ~r.given
           THEN /\ response' = [response EXCEPT ![w] =
                        json_error("Missing 'file' in multipart form-data.", 400, rid)]
                /\ pc' = [pc EXCEPT ![w] = "responded"]
           ELSE /\ pc' = [pc EXCEPT ![w] = "run_audit"]
                /\ UNCHANGED response
    /\ UNCHANGED <<globals, environment, sent, standalone, req_id, data, text, md, flags, pages, result, exc, calls>>

\* POST /audit_url: the body names a url and the download succeeds, or the
\* request ends with a 400
audit_url(w, R) ==
    /\ pc[w] = "idle"
    /\ \E r \in R, rid \in ReqIds :
        LET Downloaded(raw) ==
                /\ sent' = [sent EXCEPT ![w] = raw.sent]
                /\ IF raw.error # ""
                   THEN /\ response' = [response EXCEPT ![w] =
                                json_error("Download blocked/failed: " \o raw.error, 400, rid)]
                        /\ pc' = [pc EXCEPT ![w] = "responded"]
                   ELSE /\ pc' = [pc EXCEPT ![w] = "run_audit"]
                        /\ UNCHANGED response
        IN /\ r.route = "audit_url"
           /\ request' = [request EXCEPT ![w] = r]
           /\ http_req' = [http_req EXCEPT ![w] = rid]
           /\ IF ~r.given
              THEN /\ response' = [response EXCEPT ![w] = json_error("Missing 'url' in body.", 400, rid)]
                   /\ pc' = [pc EXCEPT ![w] = "responded"]
                   /\ UNCHANGED sent
              ELSE Downloaded(download_url_to_bytes(r.url, r.file, MAX_CONTENT_LENGTH))
    /\ UNCHANGED <<globals, environment, standalone, req_id, data, text, md, flags, pages, result, exc, calls>>

\* a caller inside the process calls run_audit with the bytes
direct_call(w, R) ==
    /\ pc[w] = "idle"
    /\ \E r \in R :
        /\ r.route = "direct"
        /\ request' = [request EXCEPT ![w] = r]
    /\ pc' = [pc EXCEPT ![w] = "run_audit"]
    /\ UNCHANGED <<globals, environment, sent, standalone, http_req, req_id, data, text, md, flags, pages, result, exc, response, calls>>

(***************************************************************************)
(* run_audit, one step per stage                                           *)
(***************************************************************************)
Raise_swallowed(w, message) ==
    /\ exc' = exc
    /\ pc' = [pc EXCEPT ![w] = "metadata"]

Raise(w, message) ==
    /\ exc' = [exc EXCEPT ![w] = message]
    /\ pc' = [pc EXCEPT ![w] = "raised"]

\* run_audit refusing to run without its documents
run_audit_gated(w) ==
    /\ pc[w] = "run_audit"
    /\ \E rid \in ReqIds : req_id' = [req_id EXCEPT ![w] = rid]
    /\ IF /\ Has(load_system_text(system_docs).exec_schematic, "v5.9")
          /\ Has(load_system_text(system_docs).output_rules, "v2.7")
       THEN pc' = [pc EXCEPT ![w] = "guard"] /\ UNCHANGED result
       ELSE /\ pc' = [pc EXCEPT ![w] = "returned"]
            /\ result' = [result EXCEPT ![w] = "configuration error"]
    /\ UNCHANGED <<globals, environment, sent, standalone, request, http_req, data, text, md, flags, pages, exc, response, calls>>

\* run_audit keeping the style of the request in the module global
run_audit_sets_style(w) ==
    /\ pc[w] = "run_audit"
    /\ \E rid \in ReqIds : req_id' = [req_id EXCEPT ![w] = rid]
    /\ pc' = [pc EXCEPT ![w] = "guard"]
    /\ OUTPUT_STYLE' = Lower(IF request[w].style = "" THEN OUTPUT_STYLE ELSE request[w].style)
    /\ UNCHANGED <<SHOW_VERBOSE_EVIDENCE, SHOW_FOOTER, doc_client, environment, sent, standalone, request, http_req,
                   data, text, md, flags, pages, result, exc, response, calls>>

\* the entry of run_audit: the request id is drawn
run_audit(w) ==
    /\ pc[w] = "run_audit"
    /\ \E rid \in ReqIds : req_id' = [req_id EXCEPT ![w] = rid]
    /\ pc' = [pc EXCEPT ![w] = "guard"]
    /\ UNCHANGED <<globals, environment, sent, standalone, request, http_req, data, text, md, flags, pages, result, exc, response, calls>>

\* raw[:5].startswith(b"%PDF")
IsPdf_any(f) == TRUE

IsPdf(f) == f.magic

\* extract_text_with_azure up to the call of Azure: bytes that start with
\* %PDF are opened, an encrypted file or a RuntimeError of fitz ends the run,
\* a file over the size guard is compressed
pdf_guard(w) ==
    LET f == request[w].file
    IN /\ pc[w] = "guard"
       /\ IF ~IsPdf(f)
          THEN /\ data' = [data EXCEPT ![w] = "raw"]
               /\ pc' = [pc EXCEPT ![w] = "ocr"]
               /\ UNCHANGED <<exc, calls>>
          ELSE /\ calls' = [calls EXCEPT ![w] = Append(@, Call("fitz.open", "extract", "extract_text_with_azure"))]
               /\ IF f.fitz = "needs_pass" THEN Raise(w, ENCRYPTED_ERROR) /\ UNCHANGED data
                  ELSE IF f.fitz = "RuntimeError" THEN Raise(w, FITZ_ERROR) /\ UNCHANGED data
                  ELSE /\ data' = [data EXCEPT ![w] =
                                IF f.fitz = "ok" /\ f.size > SIZE_GUARD THEN "slim" ELSE "raw"]
                       /\ pc' = [pc EXCEPT ![w] = "ocr"]
                       /\ UNCHANGED exc
       /\ UNCHANGED <<globals, environment, sent, standalone, request, http_req, req_id, text, md, flags, pages, result, response>>

\* extract_text_with_pymupdf(raw)
extract_text_with_pymupdf(f) ==
    IF f.fitz = "ok" THEN normalize_text(Join(Layer(f), 1)) ELSE ""

\* [p for p in parts if p]
NonEmpty(parts) == SelectSeq(parts, LAMBDA p : p # "")

\* the sparse test on the text of Azure
IsSparse(t) ==
    Len(t) < SPARSE_LEN \/ (~Has(t, "GLA") /\ ~Has(t, "Comparable") /\ ~Has(t, "COMPARABLE"))

\* the text extract_text_with_azure returns when Azure answers
AzureText(f) ==
    LET t == normalize_text(Join(NonEmpty(OcrParts(f)), 1))
        fallback == extract_text_with_pymupdf(f)
    IN IF IsSparse(t) /\ Len(fallback) > Len(t) THEN fallback ELSE t

\* extract_text_with_azure without the hard fallback: a failure of Azure
\* ends the run
azure_analyze_no_fallback(w) ==
    LET f == request[w].file
        azure == Call("begin_analyze_document", "extract", "extract_text_with_azure")
        local == Call("extract_text_with_pymupdf", "extract", "extract_text_with_azure")
        t == normalize_text(Join(NonEmpty(OcrParts(f)), 1))
    IN /\ pc[w] = "ocr"
       /\ IF f.ocr = "fail"
          THEN /\ calls' = [calls EXCEPT ![w] = @ \o <<azure>>]
               /\ Raise(w, EXTRACTION_ERROR) /\ UNCHANGED text
          ELSE /\ calls' = [calls EXCEPT ![w] = @ \o (IF IsSparse(t) THEN <<azure, local>> ELSE <<azure>>)]
               /\ text' = [text EXCEPT ![w] = AzureText(f)]
               /\ pc' = [pc EXCEPT ![w] = "metadata"]
               /\ UNCHANGED exc
       /\ UNCHANGED <<globals, environment, sent, standalone, request, http_req, req_id, data, md, flags, pages, result, response>>

\* extract_text_with_azure calling Azure a second time after a failure
azure_analyze_retry(w) ==
    LET f == request[w].file
        azure == Call("begin_analyze_document", "extract", "extract_text_with_azure")
        local == Call("extract_text_with_pymupdf", "extract", "extract_text_with_azure")
        t == normalize_text(Join(NonEmpty(OcrParts(f)), 1))
    IN /\ pc[w] = "ocr"
       /\ IF f.ocr = "fail"
          THEN /\ calls' = [calls EXCEPT ![w] = @ \o <<azure, azure, local>>]
               /\ IF extract_text_with_pymupdf(f) # ""
                  THEN /\ text' = [text EXCEPT ![w] = normalize_text(extract_text_with_pymupdf(f))]
                       /\ pc' = [pc EXCEPT ![w] = "metadata"]
                       /\ UNCHANGED exc
                  ELSE Raise(w, EXTRACTION_ERROR) /\ UNCHANGED text
          ELSE /\ calls' = [calls EXCEPT ![w] = @ \o (IF IsSparse(t) THEN <<azure, local>> ELSE <<azure>>)]
               /\ text' = [text EXCEPT ![w] = AzureText(f)]
               /\ pc' = [pc EXCEPT ![w] = "metadata"]
               /\ UNCHANGED exc
       /\ UNCHANGED <<globals, environment, sent, standalone, request, http_req, req_id, data, md, flags, pages, result, response>>

\* the rest of extract_text_with_azure: the one call of Azure, the local
\* extraction when its text is sparse, the hard fallback when it fails
azure_analyze(w) ==
    LET f == request[w].file
        azure == Call("begin_analyze_document", "extract", "extract_text_with_azure")
        local == Call("extract_text_with_pymupdf", "extract", "extract_text_with_azure")
        t == normalize_text(Join(NonEmpty(OcrParts(f)), 1))
    IN /\ pc[w] = "ocr"
       /\ IF f.ocr = "fail"
          THEN /\ calls' = [calls EXCEPT ![w] = @ \o <<azure, local>>]
               /\ IF extract_text_with_pymupdf(f) # ""
                  THEN /\ text' = [text EXCEPT ![w] = normalize_text(extract_text_with_pymupdf(f))]
                       /\ pc' = [pc EXCEPT ![w] = "metadata"]
                       /\ UNCHANGED exc
                  ELSE Raise(w, EXTRACTION_ERROR) /\ UNCHANGED text
          ELSE /\ calls' = [calls EXCEPT ![w] = @ \o (IF IsSparse(t) THEN <<azure, local>> ELSE <<azure>>)]
               /\ text' = [text EXCEPT ![w] = AzureText(f)]
               /\ pc' = [pc EXCEPT ![w] = "metadata"]
               /\ UNCHANGED exc
       /\ UNCHANGED <<globals, environment, sent, standalone, request, http_req, req_id, data, md, flags, pages, result, response>>

\* md = extract_metadata(text), then the file name of the file object
metadata_step(w) ==
    /\ pc[w] = "metadata"
    /\ md' = [md EXCEPT ![w] = [extract_metadata(text[w]) EXCEPT
                                   !.file_name = Or(request[w].filename, "[Not found in file]")]]
    /\ calls' = [calls EXCEPT ![w] = Append(@, Call("extract_metadata", "extract", "run_audit"))]
    /\ pc' = [pc EXCEPT ![w] = "rules"]
    /\ UNCHANGED <<globals, environment, sent, standalone, request, http_req, req_id, data, text, flags, pages, result, exc, response>>

\* flags = check_flags(text, md)
rules_step(w) ==
    /\ pc[w] = "rules"
    /\ flags' = [flags EXCEPT ![w] = check_flags(text[w], md[w])]
    /\ calls' = [calls EXCEPT ![w] = Append(@, Call("check_flags", "rules", "run_audit"))]
    /\ pc' = [pc EXCEPT ![w] = "pages"]
    /\ UNCHANGED <<globals, environment, sent, standalone, request, http_req, req_id, data, text, md, pages, result, exc, response>>

RECURSIVE NormalizeAll(_, _)
NormalizeAll(ps, k) ==
    IF k > Len(ps) THEN <<>> ELSE <<normalize_text(ps[k])>> \o NormalizeAll(ps, k + 1)

\* extract_pages_text(raw)
extract_pages_text(f) == IF f.fitz = "ok" THEN NormalizeAll(Layer(f), 1) ELSE <<>>

\* the page texts taken before the rules, which are then left out
pages_step_early(w) ==
    /\ pc[w] \in {"rules", "pages"}
    /\ pages' = [pages EXCEPT ![w] = extract_pages_text(request[w].file)]
    /\ calls' = [calls EXCEPT ![w] = Append(@, Call("extract_pages_text", "extract", "run_audit"))]
    /\ pc' = [pc EXCEPT ![w] = "compose"]
    /\ UNCHANGED <<globals, environment, sent, standalone, request, http_req, req_id, data, text, md, flags, result, exc, response>>

\* pages = extract_pages_text(raw)
pages_step(w) ==
    /\ pc[w] = "pages"
    /\ pages' = [pages EXCEPT ![w] = extract_pages_text(request[w].file)]
    /\ calls' = [calls EXCEPT ![w] = Append(@, Call("extract_pages_text", "extract", "run_audit"))]
    /\ pc' = [pc EXCEPT ![w] = "compose"]
    /\ UNCHANGED <<globals, environment, sent, standalone, request, http_req, req_id, data, text, md, flags, result, exc, response>>

\* what compose_output_analyst calls on the text and the pages, in order
ANALYST_CALLS ==
    <<Call("parse_subject_basics", "extract", "compose_output_analyst"),
      Call("internal consistency checks", "rules", "compose_output_analyst"),
      Call("parse_comps_quick", "extract", "compose_output_analyst"),
      Call("summarize_comps_ranges", "extract", "compose_output_analyst"),
      Call("gather_core_evidence", "extract", "compose_output_analyst"),
      Call("USPAP/VA/FIRREA checks", "rules", "compose_output_analyst"),
      Call("find_gross_net_percentages", "extract", "compose_output_analyst"),
      Call("find_adjustments", "extract", "compose_output_analyst")>>

\* style = (style_override or OUTPUT_STYLE).lower()
StyleOf(style_override, output_style) == Lower(Or(style_override, output_style))

\* the last statement of run_audit: the report in the style asked for
compose_step(w) ==
    LET style == StyleOf(request[w].style, OUTPUT_STYLE)
    IN /\ pc[w] = "compose"
       /\ IF style = "v27"
          THEN /\ result' = [result EXCEPT ![w] = compose_output_v27(md[w], flags[w], SHOW_FOOTER)]
               /\ calls' = [calls EXCEPT ![w] = Append(@, Call("compose_output_v27", "render", "run_audit"))]
          ELSE /\ result' = [result EXCEPT ![w] =
                        compose_output_analyst(md[w], text[w], pages[w], req_id[w],
                                               SHOW_VERBOSE_EVIDENCE, SHOW_FOOTER)]
               /\ calls' = [calls EXCEPT ![w] =
                        Append(@, Call("compose_output_analyst", "render", "run_audit")) \o ANALYST_CALLS]
       /\ pc' = [pc EXCEPT ![w] = "returned"]
       /\ UNCHANGED <<globals, environment, sent, standalone, request, http_req, req_id, data, text, md, flags, pages, exc, response>>

(***************************************************************************)
(* The routes of app.py after run_audit                                    *)
(***************************************************************************)
\* the report as text/plain (/audit) or inside a JSON object (/audit_url);
\* an exception of run_audit becomes a 422 with its message
respond(w) ==
    /\ pc[w] \in {"returned", "raised"}
    /\ request[w].route # "direct"
    /\ response' = [response EXCEPT ![w] =
            IF pc[w] = "raised"
            THEN json_error("Processing failed: " \o exc[w], 422, http_req[w])
            ELSE [status |-> 200,
                  mimetype |-> IF request[w].route = "audit" THEN "text/plain; charset=utf-8"
                               ELSE "application/json",
                  ok |-> TRUE, body |-> result[w], req |-> http_req[w]]]
    /\ pc' = [pc EXCEPT ![w] = "responded"]
    /\ UNCHANGED <<globals, environment, sent, standalone, request, http_req, req_id, data, text, md, flags, pages, result, exc, calls>>

\* the request is over: nothing of it is kept, the worker takes the next one
done(w) ==
    /\ \/ pc[w] = "responded"
       \/ pc[w] \in {"returned", "raised"} /\ request[w].route = "direct"
    /\ pc' = [pc EXCEPT ![w] = "idle"]
    /\ request' = [request EXCEPT ![w] = NoRequest]
    /\ http_req' = [http_req EXCEPT ![w] = ""]
    /\ req_id' = [req_id EXCEPT ![w] = ""]
    /\ data' = [data EXCEPT ![w] = ""]
    /\ text' = [text EXCEPT ![w] = ""]
    /\ md' = [md EXCEPT ![w] = NoMd]
    /\ flags' = [flags EXCEPT ![w] = <<>>]
    /\ pages' = [pages EXCEPT ![w] = <<>>]
    /\ result' = [result EXCEPT ![w] = ""]
    /\ exc' = [exc EXCEPT ![w] = ""]
    /\ response' = [response EXCEPT ![w] = NoResponse]
    /\ calls' = [calls EXCEPT ![w] = <<>>]
    /\ sent' = [sent EXCEPT ![w] = <<>>]
    /\ UNCHANGED <<globals, environment, standalone>>

(***************************************************************************)
(* Specifications                                                          *)
(***************************************************************************)
\* one request at a time, every request of the model
Next ==
    \/ audit_upload("w1", Requests)
    \/ audit_url("w1", Requests)
    \/ direct_call("w1", Requests)
    \/ run_audit("w1")
    \/ pdf_guard("w1")
    \/ azure_analyze("w1")
    \/ metadata_step("w1")
    \/ rules_step("w1")
    \/ pages_step("w1")
    \/ compose_step("w1")
    \/ respond("w1")
    \/ done("w1")

Spec == Init /\ [][Next]_vars

\* two workers that call run_audit at the same time
NextConc ==
    \E w \in Workers :
        \/ direct_call(w, ConcRequests)
        \/ run_audit(w)
        \/ pdf_guard(w)
        \/ azure_analyze(w)
        \/ metadata_step(w)
        \/ rules_step(w)
        \/ pages_step(w)
        \/ compose_step(w)
        \/ done(w)

SpecConc == Init /\ [][NextConc]_vars

(***************************************************************************)
(* The functions of the module called on their own                         *)
(***************************************************************************)
\* the characters _normalize_text treats, and a letter
NORM_ALPHABET == <<"a", " ", "\t", "\n", "\r", EN_DASH, EM_DASH>>

\* the strings of at most n of these characters
RECURSIVE Strings(_)
Strings(n) ==
    IF n = 0 THEN {""}
    ELSE LET S == Strings(n - 1)
         IN S \cup {s \o NORM_ALPHABET[i] : s \in S, i \in DOMAIN NORM_ALPHABET}

\* longer texts: blank lines that hold a space, lines ended by "\r\n",
\* runs of blanks and dashes, empty blank lines
NORM_SAMPLES ==
    {"a\n \n \n \nb", "a\r\n\r\n\r\nb", "a \t b" \o EN_DASH \o "c" \o EM_DASH \o "d", "a\n\n\n\nb",
     " a\n\t\n\nb\r"}

NormArgs == {Arg("raw", t, <<>>) : t \in Strings(MaxLen) \cup NORM_SAMPLES}

\* Texts with a VA case number: what precedes it, "26", a separator, "26",
\* a separator, the middle character, a separator, the tail.  parts keeps
\* the pieces the text is made of.
VA_PREFIXES == {"", "VA Case No: "}
VA_SEPARATORS == {"", " ", "-", "\n", "\t", "  "}
VA_MIDS == {"a", "7"}
VA_TAILS == {"12345", "123456", "1234567", "1234567890", "abcdefgh"}

VaArgs ==
    {Arg("case", p \o "26" \o s1 \o "26" \o s1 \o m \o s2 \o t, <<p, s1, m, s2, t>>) :
        p \in VA_PREFIXES, s1 \in VA_SEPARATORS, m \in VA_MIDS, s2 \in VA_SEPARATORS, t \in VA_TAILS}

\* Texts for extract_metadata; parts holds the effective date as the text
\* writes it where one of the three searches can find it, "" otherwise.
FieldArgs ==
    {Arg("text", "", <<"">>),
     Arg("text", "hello world", <<"">>),
     Arg("text", "Signature of the reviewer", <<"">>),
     Arg("text", "Intended Use: Refinance decision", <<"">>),
     Arg("text", "The intended use of this report is mortgage finance.", <<"">>),
     Arg("text", "Effective Date: 03-04-24", <<"03-04-24">>),
     Arg("text", "Report dated March 4, 2024 for the file", <<"March 4, 2024">>),
     Arg("text", "Inspected as of 3/4/2024", <<"3/4/2024">>),
     Arg("text", "Date of Appraised Value 03/04/2024\nOpinion of Value: $ 350,000", <<"03/04/2024">>),
     Arg("text", "printed 03-04-24", <<"">>),
     Arg("text", "Appraiser: Jane Doe\nClient: Acme Bank", <<"">>),
     Arg("text", "Fee Simple 1004 URAR", <<"">>)}
    \cup {Arg("text", normalize_text(d), <<"">>) : d \in {DOC_VA, DOC_CASE, DOC_BLANK}}
    \cup {Arg("text", normalize_text(DOC_CONV), <<"03-04-24">>)}

\* Lists of flags for compose_output_v27: the three findings of check_flags
\* and one more, in every order and number up to four.
FLAG_POOL == {FLAG_MC, FLAG_VA, FLAG_SIG, "Manual review requested."}
FlagArgs ==
    {Arg("flags", "", fl) : fl \in UNION {[1..n -> FLAG_POOL] : n \in 0..4}}

\* Texts of VA and other reports: an indicator of a VA loan or none, a VA
\* case number (written in full, without separators, with a short tail) or
\* none, a reference to the minimum property requirements or none.  parts
\* keeps the three pieces.
VA_INDICATORS == {"", "VA Loan\n", "Department of Veterans Affairs\n", "LAPP appraisal\n", "Vacant land\n"}
VA_CASES == {"", "Case 26-26-6-1234567 ", "2626a123456 ", "26 26 7 12345 "}
VA_MPR == {"", "MPR reviewed", "Minimum Property\nRequirements are met", "MPRs"}

VaTextArgs ==
    {Arg("va", p \o c \o m, <<p, c, m>>) : p \in VA_INDICATORS, c \in VA_CASES, m \in VA_MPR}

\* the settings of a deployment that sets none of the environment variables
DEFAULT_DEPLOYMENT == CHOOSE d \in Deployments : d.OUTPUT_STYLE = "analyst" /\ d.SHOW_FOOTER

InitFn ==
    /\ InitDeployment(DEFAULT_DEPLOYMENT)
    /\ InitWorkers
    /\ alone_fn = "" /\ alone_ret = NoRet
    /\ alone_arg \in NormArgs \cup VaArgs \cup FieldArgs \cup FlagArgs \cup VaTextArgs

\* _normalize_text(t)
call_normalize_text ==
    /\ alone_fn = "" /\ alone_arg.kind = "raw"
    /\ alone_fn' = "_normalize_text"
    /\ alone_ret' = [alone_ret EXCEPT !.text = normalize_text(alone_arg.text)]
    /\ UNCHANGED <<globals, environment, locals, sent, alone_arg>>

\* _normalize_text of a text that _normalize_text returned
call_normalize_text_again ==
    /\ alone_fn = "_normalize_text"
    /\ alone_fn' = "_normalize_text twice"
    /\ alone_ret' = [alone_ret EXCEPT !.again = normalize_text(alone_ret.text)]
    /\ UNCHANGED <<globals, environment, locals, sent, alone_arg>>

\* _extract_va_case(text)
call_extract_va_case ==
    /\ alone_fn = "" /\ alone_arg.kind = "case"
    /\ alone_fn' = "_extract_va_case"
    /\ alone_ret' = [alone_ret EXCEPT !.text = extract_va_case(alone_arg.text)]
    /\ UNCHANGED <<globals, environment, locals, sent, alone_arg>>

\* extract_metadata(text)
call_extract_metadata ==
    /\ alone_fn = "" /\ alone_arg.kind = "text"
    /\ alone_fn' = "extract_metadata"
    /\ alone_ret' = [alone_ret EXCEPT !.md = extract_metadata(alone_arg.text)]
    /\ UNCHANGED <<globals, environment, locals, sent, alone_arg>>

\* compose_output_v27(md, flags) for the metadata of an empty text
call_compose_output_v27 ==
    /\ alone_fn = "" /\ alone_arg.kind = "flags"
    /\ alone_fn' = "compose_output_v27"
    /\ alone_ret' = [alone_ret EXCEPT !.text = compose_output_v27(extract_metadata(""), alone_arg.parts, SHOW_FOOTER)]
    /\ UNCHANGED <<globals, environment, locals, sent, alone_arg>>

\* md = extract_metadata(text) for the normalized text that run_audit has
\* from extract_text_with_azure
call_run_audit_metadata ==
    /\ alone_fn = "" /\ alone_arg.kind \in {"va", "case"}
    /\ alone_fn' = "run_audit: extract_metadata"
    /\ alone_ret' = [alone_ret EXCEPT !.audited = normalize_text(alone_arg.text),
                                      !.md = extract_metadata(normalize_text(alone_arg.text))]
    /\ UNCHANGED <<globals, environment, locals, sent, alone_arg>>

\* flags = check_flags(text, md), the next line of run_audit
call_check_flags ==
    /\ alone_fn = "run_audit: extract_metadata"
    /\ alone_fn' = "run_audit: check_flags"
    /\ alone_ret' = [alone_ret EXCEPT !.flags = check_flags(alone_ret.audited, alone_ret.md)]
    /\ UNCHANGED <<globals, environment, locals, sent, alone_arg>>

\* the report of either composer for this text, metadata and flags
call_compose_output ==
    /\ alone_fn = "run_audit: check_flags"
    /\ alone_fn' = "run_audit: compose"
    /\ alone_ret' = [alone_ret EXCEPT
            !.text = compose_output_v27(alone_ret.md, alone_ret.flags, SHOW_FOOTER),
            !.analyst = compose_output_analyst(alone_ret.md, alone_ret.audited, <<alone_ret.audited>>,
                                               "00000001", SHOW_VERBOSE_EVIDENCE, SHOW_FOOTER)]
    /\ UNCHANGED <<globals, environment, locals, sent, alone_arg>>

NextFn ==
    \/ call_run_audit_metadata
    \/ call_check_flags
    \/ call_compose_output
    \/ call_normalize_text
    \/ call_normalize_text_again
    \/ call_extract_va_case
    \/ call_extract_metadata
    \/ call_compose_output_v27

SpecFn == InitFn /\ [][NextFn]_vars

(***************************************************************************)
(* run_audit as one function of its input, of the request id it draws and  *)
(* of the settings: what a call returns when nothing else runs             *)
(***************************************************************************)
\* whether extract_text_with_azure raises on the file of the request, and the
\* message it raises
ExtractionError(f) ==
    IF IsPdf(f) /\ f.fitz = "needs_pass" THEN ENCRYPTED_ERROR
    ELSE IF IsPdf(f) /\ f.fitz = "RuntimeError" THEN FITZ_ERROR
    ELSE IF f.ocr = "fail" /\ extract_text_with_pymupdf(f) = "" THEN EXTRACTION_ERROR
    ELSE ""

ExtractedText(f) ==
    IF f.ocr = "fail" THEN normalize_text(extract_text_with_pymupdf(f)) ELSE AzureText(f)

RunAlone(r, rid, output_style, show_evidence, show_footer) ==
    LET f == r.file
        t == ExtractedText(f)
        m == [extract_metadata(t) EXCEPT !.file_name = Or(r.filename, "[Not found in file]")]
        fl == check_flags(t, m)
        ps == extract_pages_text(f)
    IN IF ExtractionError(f) # ""
       THEN [raised |-> TRUE, exc |-> ExtractionError(f), result |-> ""]
       ELSE [raised |-> FALSE, exc |-> "",
             result |-> IF StyleOf(r.style, output_style) = "v27"
                        THEN compose_output_v27(m, fl, show_footer)
                        ELSE compose_output_analyst(m, t, ps, rid, show_evidence, show_footer)]

(***************************************************************************)
(* Properties                                                              *)
(***************************************************************************)
\* the names of the functions called so far by worker w
Called(w) == {calls[w][i].fn : i \in DOMAIN calls[w]}

\* how often worker w has called fn
Count(w, fn) == Cardinality({i \in DOMAIN calls[w] : calls[w][i].fn = fn})

\* the lines of a report that begin a v27 section
HeaderLines(report) == SelectSeq(SplitLines(report, 1), LAMBDA l : Sub(l, 1, 9) = "[SECTION ")

\* the lines of a report that are a header of the analyst view
AnalystHeaderLines(report) ==
    SelectSeq(SplitLines(report, 1),
              LAMBDA l : l \in {"EXECUTIVE SUMMARY", "CORE FACTS", "INTERNAL CONSISTENCY REVIEW",
                                "USPAP / VA / FIRREA FLAG CHECK", "COMP ANALYSIS REVIEW",
                                "SUMMARY METADATA"})

FIVE_SECTIONS ==
    <<"[SECTION 1] REPORT METADATA SNAPSHOT", "[SECTION 2] SUMMARY OF COMPLIANCE FLAGS",
      "[SECTION 3] DETAILED FLAGS AND REFERENCES", "[SECTION 4] TOP FLAGS (CONDENSED)",
      "[SECTION 5] ADDITIONAL NOTES">>

\* the file has a text layer with text in it
HasTextLayer(f) == f.fitz = "ok" /\ f.layered /\ f.doc # DOC_BLANK

C2_FiveSectionsAlways ==
    \A w \in Workers : pc[w] = "returned" => HeaderLines(result[w]) = FIVE_SECTIONS

\* C2 amended: a report in the v27 style consists of the five labelled
\* sections in their order and has no header of the analyst view; a report
\* in any other style has none of the five labels and consists of the six
\* headed blocks of the analyst view in their order.
C2_SectionsByStyle ==
    \A w \in Workers :
        pc[w] = "returned" =>
            IF Lower(Or(request[w].style, OUTPUT_STYLE)) = "v27"
            THEN /\ HeaderLines(result[w]) = FIVE_SECTIONS
                 /\ AnalystHeaderLines(result[w]) = <<>>
            ELSE /\ HeaderLines(result[w]) = <<>>
                 /\ AnalystHeaderLines(result[w]) =
                        <<"EXECUTIVE SUMMARY", "CORE FACTS", "INTERNAL CONSISTENCY REVIEW",
                          "USPAP / VA / FIRREA FLAG CHECK", "COMP ANALYSIS REVIEW", "SUMMARY METADATA">>

\* C2 witness: a report in the analyst view and the style the caller left
\* to the default
C2_Witness ==
    \E w \in Workers :
        /\ pc[w] = "returned"
        /\ request[w].style = ""
        /\ OUTPUT_STYLE = "analyst"
        /\ Has(result[w], "EXECUTIVE SUMMARY")

\* C3 as the claim states it: for bytes that do not start with %PDF the OCR
\* backend is not called and nothing is extracted, and the report holds the
\* finding of an unsupported file type.
C3_NoOcrWithoutMagic ==
    \A w \in Workers :
        (pc[w] # "idle" /\ request[w].file # NoFile /\ ~request[w].file.magic) =>
            /\ Called(w) = {}
            /\ pc[w] = "returned" => Has(Lower(result[w]), "unsupported file type")

\* C3 amended: for bytes that do not start with %PDF only the PDF guard is
\* skipped (the file is not opened to look for encryption or to compress
\* it); the bytes go to the OCR backend once, and the run ends like any
\* other: with an ordinary report, which names no unsupported file type,
\* or, when Azure fails and local extraction finds no text, with the
\* RuntimeError of the extraction.
C3_OnlyGuardSkipped ==
    \A w \in Workers :
        LET f == request[w].file
        IN (f # NoFile /\ ~f.magic) =>
            /\ "fitz.open" \notin Called(w)
            /\ pc[w] \in {"metadata", "rules", "pages", "compose", "returned", "raised"}
                   => Count(w, "begin_analyze_document") = 1
            /\ pc[w] = "raised" => exc[w] = EXTRACTION_ERROR /\ f.ocr = "fail" /\ ~HasTextLayer(f)
            /\ pc[w] = "returned" =>
                   /\ ~Has(Lower(result[w]), "unsupported file type")
                   /\ f.ocr = "fail" => HasTextLayer(f)

\* C3 witness: an image, which Azure read, has its report
C3_Witness ==
    \E w \in Workers :
        /\ pc[w] = "returned"
        /\ request[w].file = F_IMAGE
        /\ Count(w, "begin_analyze_document") = 1
        /\ Has(result[w], "Acme Bank")

\* the style a run renders in
RenderedStyle(w) == Lower(Or(request[w].style, OUTPUT_STYLE))

\* the report has the footer line of the analyst view
Footed(w) == RenderedStyle(w) # "v27" /\ SHOW_FOOTER

\* a report without its last eight characters, and those characters
Body(report) == Sub(report, 1, Len(report) - 8)
Ending(report) == Sub(report, Len(report) - 7, Len(report))

\* C4 as the claim states it: two runs on the same input under the same
\* configuration return byte-identical reports.
C4_ByteIdentical ==
    (pc["w1"] = "returned" /\ pc["w2"] = "returned" /\ request["w1"] = request["w2"])
        => result["w1"] = result["w2"]

\* C4 amended: two runs on the same input under the same configuration
\* return byte-identical reports when the style is v27 or the footer is
\* off; in the analyst view with the footer on, each report ends with the
\* request id drawn at random for that run, and the two reports are
\* identical up to those last eight characters.
C4_IdenticalButFooter ==
    (pc["w1"] = "returned" /\ pc["w2"] = "returned" /\ request["w1"] = request["w2"])
        => IF Footed("w1")
           THEN /\ Body(result["w1"]) = Body(result["w2"])
                /\ \A w \in Workers : Ending(result[w]) = req_id[w]
                /\ (result["w1"] = result["w2"]) <=> (req_id["w1"] = req_id["w2"])
           ELSE result["w1"] = result["w2"]

\* C4 witness: two reports of the same input in the analyst view with the
\* footer on, under two request ids
C4_Witness ==
    /\ pc["w1"] = "returned" /\ pc["w2"] = "returned"
    /\ request["w1"] = request["w2"]
    /\ Footed("w1")
    /\ req_id["w1"] # req_id["w2"]
    /\ result["w1"] # result["w2"]

\* C5 as the claim states it: no text of an exception reaches the body of a
\* response of /audit or /audit_url, nor the string run_audit returns.
C5_NoExceptionText ==
    \A w \in Workers :
        /\ (pc[w] = "responded" /\ exc[w] # "") => ~Has(response[w].body, exc[w])
        /\ (pc[w] = "responded" /\ request[w].route = "audit_url" /\ request[w].given
                /\ download_url_to_bytes(request[w].url, request[w].file, MAX_CONTENT_LENGTH).error # "")
               => ~Has(response[w].body, download_url_to_bytes(request[w].url, request[w].file, MAX_CONTENT_LENGTH).error)
        /\ pc[w] = "returned" => ~Has(result[w], AZURE_ERROR)

\* the system documents carry their version tokens
ConfigOk ==
    /\ Has(load_system_text(system_docs).exec_schematic, "v5.9")
    /\ Has(load_system_text(system_docs).output_rules, "v2.7")

\* C6 as the claim states it: when a system document is missing or lacks
\* its version token, no extraction and no rule runs, and the report is
\* the report of a configuration error.
C6_ConfigGates ==
    \A w \in Workers :
        ~ConfigOk =>
            /\ calls[w] = <<>>
            /\ pc[w] = "returned" => Has(Lower(result[w]), "configuration")

\* C6 amended: run_audit never reads the system documents: whether they
\* are present and carry their version tokens or not, a run that returns
\* has called the OCR backend, extract_metadata and check_flags, and its
\* report names no configuration error; load_system_text, which nothing
\* calls, gives "" for a document that is missing.
C6_ConfigIgnored ==
    \A w \in Workers :
        /\ pc[w] = "returned" =>
              /\ {"begin_analyze_document", "extract_metadata", "check_flags"} \subseteq Called(w)
              /\ ~Has(Lower(result[w]), "configuration")
        /\ pc[w] = "raised" => exc[w] \in {ENCRYPTED_ERROR, FITZ_ERROR, EXTRACTION_ERROR}
        /\ (system_docs.output_rules = MISSING) <=> (load_system_text(system_docs).output_rules = "")

\* C6 witness: a report made while a system document is missing or lacks
\* its token
C6_Witness ==
    \E w \in Workers :
        /\ ~ConfigOk
        /\ pc[w] = "returned"
        /\ "check_flags" \in Called(w)

\* the calls run_audit makes itself, and those the renderer makes
TopCalls(w) == SelectSeq(calls[w], LAMBDA c : c.by = "run_audit")
RenderCalls(w) ==
    SelectSeq(calls[w], LAMBDA c : c.by \in {"compose_output_analyst", "compose_output_v27"})

\* C7 as the claim states it: the stages run in strict order, no
\* extraction follows the start of the rules, and the renderer neither
\* extracts nor evaluates a rule.
C7_StrictStages ==
    \A w \in Workers :
        /\ \A i, j \in DOMAIN calls[w] :
               i < j => ~(calls[w][i].stage = "rules" /\ calls[w][j].stage = "extract")
        /\ \A i \in DOMAIN RenderCalls(w) : RenderCalls(w)[i].stage = "render"

\* C7 amended: run_audit runs, in this order and each at most once, the
\* text extraction (PDF guard, OCR, local fallback), extract_metadata,
\* check_flags, extract_pages_text (an extraction, after the rules) and
\* one renderer; an exception ends the run only during the text
\* extraction.  The v27 renderer calls no extractor and no check; the
\* analyst renderer parses the text again and runs checks of its own.
C7_StageOrder ==
    \A w \in Workers :
        LET top == TopCalls(w)
            order == <<"extract_metadata", "check_flags", "extract_pages_text">>
        IN /\ Len(top) <= 4
           /\ \A i \in DOMAIN top :
                  IF i <= 3 THEN top[i].fn = order[i]
                  ELSE top[i].fn \in {"compose_output_analyst", "compose_output_v27"}
           /\ \A i, j \in DOMAIN calls[w] :
                  i < j => ~(calls[w][i].by # "extract_text_with_azure"
                             /\ calls[w][j].by = "extract_text_with_azure")
           /\ pc[w] = "raised" => top = <<>> /\ RenderCalls(w) = <<>>
           /\ pc[w] = "returned" =>
                  /\ Len(top) = 4
                  /\ RenderCalls(w) = (IF RenderedStyle(w) = "v27" THEN <<>> ELSE ANALYST_CALLS)

\* C7 witness: a report of the analyst view, whose renderer parsed the
\* subject after check_flags had run
C7_Witness ==
    \E w \in Workers :
        /\ pc[w] = "returned"
        /\ \E i, j \in DOMAIN calls[w] :
               /\ i < j
               /\ calls[w][i].fn = "check_flags"
               /\ calls[w][j].fn = "parse_subject_basics"

\* a run ended as the same request ends when it runs alone
EndsAsAlone(w) ==
    LET alone == RunAlone(request[w], req_id[w], OUTPUT_STYLE, SHOW_VERBOSE_EVIDENCE, SHOW_FOOTER)
    IN /\ pc[w] = "returned" => ~alone.raised /\ result[w] = alone.result
       /\ pc[w] = "raised" => alone.raised /\ exc[w] = alone.exc

\* C8: concurrent runs share no state: no step of a run writes a module
\* global, and each run ends with the report (or the exception) the same
\* request has when it runs alone, whatever the other run does meanwhile.
C8_Isolated ==
    /\ [](\A w \in Workers : EndsAsAlone(w))
    /\ [][globals' = globals]_vars

\* C8 witness: one run has returned its report while another run, of
\* another file in another style, is between its stages
C8_Witness ==
    \E w, v \in Workers :
        /\ w # v
        /\ pc[w] = "returned"
        /\ pc[v] \in {"metadata", "rules", "pages", "compose"}
        /\ request[w].file # request[v].file
        /\ RenderedStyle(w) # RenderedStyle(v)

\* C9: nothing is retried: in one run the OCR backend is called at most
\* once, also when it fails, and the rule set is evaluated at most once.
C9_NoRetry ==
    \A w \in Workers :
        /\ Count(w, "begin_analyze_document") <= 1
        /\ Count(w, "check_flags") <= 1

\* C9 witness: Azure failed, the text layer was used instead, and the
\* report came after one call of Azure and one evaluation of the rules
C9_Witness ==
    \E w \in Workers :
        /\ pc[w] = "returned"
        /\ request[w].file.ocr = "fail"
        /\ Count(w, "begin_analyze_document") = 1
        /\ Count(w, "check_flags") = 1

C16_Idempotent ==
    alone_fn = "_normalize_text twice" => alone_ret.again = alone_ret.text

\* C16 witness: a text with carriage returns, which normalisation changed,
\* has been normalised twice
C16_Witness ==
    /\ alone_fn = "_normalize_text twice"
    /\ Has(alone_arg.text, "\r\n\r\n\r\n")
    /\ alone_ret.text # alone_arg.text
    /\ alone_ret.again = alone_ret.text

\* a run of n + 1 or more line breaks with nothing but blanks between
\* them: n or more consecutive blank lines
BlankLines(t, n) ==
    \E i, j \in 1..Len(t) :
        /\ i < j
        /\ \A k \in i..j : Ch(t, k) \in {"\n", " ", "\t"}
        /\ Cardinality({k \in i..j : Ch(t, k) = "\n"}) > n

\* C17: a normalised text holds no em or en dash, no carriage return, no
\* two blanks in a row, and no three consecutive blank lines, also when
\* the blank lines hold spaces or tabs.
C17_Normalised ==
    alone_fn = "_normalize_text" =>
        LET t == alone_ret.text
        IN /\ ~Has(t, EN_DASH) /\ ~Has(t, EM_DASH)
           /\ ~Has(t, "\r")
           /\ ~\E i \in 1..(Len(t) - 1) : Ch(t, i) \in {" ", "\t"} /\ Ch(t, i + 1) \in {" ", "\t"}
           /\ ~BlankLines(t, 3)

\* the canonical case number of a middle character and a tail
CanonicalCase(mid, tail) ==
    "26-26-" \o (IF mid = "a" THEN "A" ELSE mid) \o "-" \o Sub(tail \o "0000000", 1, 7)

\* C18 as the claim states it: a token 26, 26, one alphanumeric and six or
\* more alphanumerics, with at most one space or hyphen between its parts,
\* gives 26-26-X-XXXXXXX; a text with no such token gives "".
C18_SpaceOrHyphen ==
    alone_fn = "_extract_va_case" =>
        LET p == alone_arg.parts
        IN IF {p[2], p[4]} \subseteq {"", " ", "-"} /\ Len(p[5]) >= 6
           THEN alone_ret.text = CanonicalCase(p[3], p[5])
           ELSE alone_ret.text = ""

\* C18 amended: the parts of the token may be separated by at most one
\* hyphen or one white-space character of any kind, a tab or a line break
\* included; the leftmost such token gives 26-26-X-XXXXXXX with X the
\* middle character in upper case and the first seven characters of the
\* tail as written, padded with "0" on the right when the tail has six; a
\* text with no such token gives "".
C18_AnyWhiteSpace ==
    alone_fn = "_extract_va_case" =>
        LET p == alone_arg.parts
        IN IF {p[2], p[4]} \subseteq {"", " ", "-", "\n", "\t"} /\ Len(p[5]) >= 6
           THEN alone_ret.text = CanonicalCase(p[3], p[5])
           ELSE alone_ret.text = ""

\* C18 witness: "26 26 a 1234567890" gave "26-26-A-1234567"
C18_Witness ==
    /\ alone_fn = "_extract_va_case"
    /\ alone_arg.text = "26 26 a 1234567890"
    /\ alone_ret.text = "26-26-A-1234567"

\* the fields of the metadata for which the text can hold no match: it
\* lacks a word, or the digits, every search for the field needs
Unmatched(t) ==
    LET low == Lower(t)
        digits == \E i \in 1..Len(t) : IsDigit(Ch(t, i))
    IN (IF ~Has(low, "intended") THEN {"intended_use"} ELSE {})
       \cup (IF ~digits THEN {"effective_date"} ELSE {})
       \cup (IF ~Has(low, "value") THEN {"value_conclusion"} ELSE {})
       \cup (IF ~Has(low, "client") /\ ~Has(low, "lender") THEN {"client"} ELSE {})
       \cup (IF ~Has(low, "appraiser") /\ ~Has(low, "prepared") THEN {"appraiser_name"} ELSE {})
       \cup (IF ~digits /\ \A k \in {"uniform", "urar", "fnma", "fhlmc", "gp ", "general"} : ~Has(low, k)
             THEN {"form_type"} ELSE {})
       \cup (IF ~Has(low, "fee") /\ ~Has(low, "leasehold") THEN {"rights_appraised"} ELSE {})
       \cup (IF ~Has(t, "26") THEN {"va_case_number"} ELSE {})

\* C15 as the claim states it: a field for which the text holds no match
\* is reported as not found, the intended use, the effective date and the
\* value conclusion included.
C15_AbsentIsNotFound ==
    alone_fn = "extract_metadata" =>
        \A f \in Unmatched(alone_arg.text) : alone_ret.md[f] = ""

\* C15 amended: a field for which the text holds no match is reported as
\* the empty string, except the intended use: with no statement of the
\* intended use in the text, _extract_intended_use reports the fixed value
\* "Mortgage Lending.".
C15_AbsentOrDefault ==
    alone_fn = "extract_metadata" =>
        \A f \in Unmatched(alone_arg.text) :
            alone_ret.md[f] = (IF f = "intended_use" THEN "Mortgage Lending." ELSE "")

\* C15 witness: a text that states nothing has its metadata
C15_Witness ==
    /\ alone_fn = "extract_metadata"
    /\ alone_arg.text = "hello world"
    /\ {"intended_use", "effective_date", "value_conclusion"} \subseteq Unmatched(alone_arg.text)
    /\ alone_ret.md.intended_use = "Mortgage Lending."
    /\ alone_ret.md.effective_date = ""

\* "Mon DD, YYYY"
IsCanonicalDate(d) ==
    /\ Len(d) = 12
    /\ Sub(d, 1, 3) \in {"Jan", "Feb", "Mar", "Apr", "May", "Jun", "Jul", "Aug", "Sep", "Oct", "Nov", "Dec"}
    /\ Sub(d, 4, 4) = " " /\ Sub(d, 7, 8) = ", "
    /\ \A i \in {5, 6, 9, 10, 11, 12} : IsDigit(Ch(d, i))

\* C19 as the claim states it: the effective date of the metadata is in
\* the form Mon DD, YYYY; "03-04-24" and "March 4, 2024" are both reported
\* as "Mar 04, 2024".
C19_CanonicalDate ==
    alone_fn = "extract_metadata" =>
        /\ alone_ret.md.effective_date # "" => IsCanonicalDate(alone_ret.md.effective_date)
        /\ alone_arg.parts[1] \in {"03-04-24", "March 4, 2024"} =>
               alone_ret.md.effective_date = "Mar 04, 2024"

\* C19 amended: the effective date of the metadata is the date exactly as
\* the text writes it, in no canonical form: "03-04-24" after a label is
\* reported as "03-04-24" and "March 4, 2024" as "March 4, 2024".
C19_DateAsWritten ==
    alone_fn = "extract_metadata" =>
        /\ alone_ret.md.effective_date = alone_arg.parts[1]
        /\ Has(alone_arg.text, alone_ret.md.effective_date)

\* C19 witness: the two dates of the claim, each reported as written
C19_Witness ==
    /\ alone_fn = "extract_metadata"
    /\ alone_arg.parts[1] \in {"03-04-24", "March 4, 2024"}
    /\ alone_ret.md.effective_date = alone_arg.parts[1]
    /\ ~IsCanonicalDate(alone_ret.md.effective_date)

\* the lines of a section of a report: those after its header, up to the
\* next empty line
Section(report, header) ==
    LET ls == SplitLines(report, 1)
        h == CHOOSE i \in DOMAIN ls : ls[i] = header
        e == CHOOSE i \in (h + 1)..(Len(ls) + 1) :
                 /\ i = Len(ls) + 1 \/ ls[i] = ""
                 /\ \A j \in (h + 1)..(i - 1) : ls[j] # ""
    IN SubSeq(ls, h + 1, e - 1)

\* C13: section 4 lists the first min(3, n) entries of the n flags that
\* section 2 lists, in the same order and unchanged; with no flag it shows
\* the line "-> None.".
C13_TopThree ==
    alone_fn = "compose_output_v27" =>
        LET n == Len(alone_arg.parts)
            s2 == Section(alone_ret.text, "[SECTION 2] SUMMARY OF COMPLIANCE FLAGS")
            s4 == Section(alone_ret.text, "[SECTION 4] TOP FLAGS (CONDENSED)")
        IN IF n = 0 THEN s4 = <<"-> None.">>
           ELSE /\ Len(s2) = n
                /\ \A i \in 1..n : s2[i] = "-> " \o alone_arg.parts[i]
                /\ s4 = SubSeq(s2, 1, IF n < 3 THEN n ELSE 3)

\* C13 witness: of four flags section 4 shows three
C13_Witness ==
    /\ alone_fn = "compose_output_v27"
    /\ Len(alone_arg.parts) = 4
    /\ Len(Section(alone_ret.text, "[SECTION 4] TOP FLAGS (CONDENSED)")) = 3

\* the lines of section 2 of a report that are about the VA
VaLines(report) ==
    SelectSeq(Section(report, "[SECTION 2] SUMMARY OF COMPLIANCE FLAGS"), LAMBDA l : Has(l, "VA"))

\* the text names the MPR, Tidewater or the Notice of Value
VaMarker(t) ==
    \/ Has(Lower(t), "minimum property requirements") \/ HasPhrase(t, <<"mpr">>)
    \/ Has(Lower(t), "tidewater") \/ Has(Lower(t), "notice of value")

\* C11 as the claim states it: for a VA document with none of the markers
\* MPR, Tidewater, Notice of Value, section 2 holds exactly one finding
\* about the VA, of severity CRITICAL (the rule identifier, whose form the
\* specification leaves open, is not tested); for a VA document with one
\* of the markers and for a document that is not VA it holds none.
C11_CriticalVaFinding ==
    \A w \in Workers :
        (pc[w] = "returned" /\ RenderedStyle(w) = "v27") =>
            IF md[w].is_va_loan = "Yes" /\ ~VaMarker(text[w])
            THEN Len(VaLines(result[w])) = 1 /\ Has(VaLines(result[w])[1], "CRITICAL")
            ELSE VaLines(result[w]) = <<>>

\* C11 amended: for a VA document whose text holds neither "MPR" nor
\* "Minimum Property Requirements" as whole words, section 2 of the v27
\* report holds exactly one finding about the VA, the line "-> No VA MPR
\* references found despite VA loan indicators.", which has no severity
\* and no rule identifier; Tidewater and the Notice of Value do not count
\* as markers; for a VA document that names the MPR and for a document
\* that is not VA section 2 holds no such finding.  No report holds the
\* word CRITICAL.
C11_VaFindingWithoutMpr ==
    \A w \in Workers :
        pc[w] = "returned" =>
            /\ ~Has(result[w], "CRITICAL")
            /\ RenderedStyle(w) = "v27" =>
                   VaLines(result[w]) =
                       (IF md[w].is_va_loan = "Yes" /\ ~HasMpr(text[w])
                        THEN <<"-> No VA MPR references found despite VA loan indicators.">>
                        ELSE <<>>)

\* C11 witness: the report of a VA document that names Tidewater and the
\* Notice of Value has the finding
C11_Witness ==
    \E w \in Workers :
        /\ pc[w] = "returned" /\ RenderedStyle(w) = "v27"
        /\ md[w].is_va_loan = "Yes"
        /\ Has(text[w], "Tidewater")
        /\ Len(VaLines(result[w])) = 1

\* the flags section 2 of a report lists, without their arrows
Listed(report) ==
    LET s2 == Section(report, "[SECTION 2] SUMMARY OF COMPLIANCE FLAGS")
    IN IF s2 = <<"-> No material compliance flags detected by automated checks.">> THEN <<>>
       ELSE [i \in DOMAIN s2 |-> Sub(s2[i], 4, Len(s2[i]))]

\* the rank of the severity section 4.4 of the specification gives a
\* finding: the missing VA marker is CRITICAL (0), the missing addendum is
\* MODERATE (1); the signature check, which the specification does not
\* list, is ranked with the moderate ones
SeverityRank(issue) == IF Has(issue, "VA") THEN 0 ELSE 1

\* the characters of the flags' texts in the order of their code points
ASCII_ORDER == " !#$%&'()*+,-./0123456789:;<=>?@ABCDEFGHIJKLMNOPQRSTUVWXYZ[]^_abcdefghijklmnopqrstuvwxyz{|}~"

\* a <= b in lexicographic order
LexLeq(a, b) ==
    \/ a = b
    \/ \E k \in 1..(Len(a) + 1) :
           /\ Sub(a, 1, k - 1) = Sub(b, 1, k - 1)
           /\ k <= Len(b)
           /\ k = Len(a) + 1 \/ Find(ASCII_ORDER, Ch(a, k)) < Find(ASCII_ORDER, Ch(b, k))

\* C12 as the claim states it: the flags of the summary section are
\* sorted by severity rank and, within one severity, by issue text; a
\* CRITICAL VA finding is listed before the MODERATE finding of the
\* missing market-conditions addendum.
C12_SeveritySorted ==
    \A w \in Workers :
        (pc[w] = "returned" /\ RenderedStyle(w) = "v27") =>
            LET fl == Listed(result[w])
            IN \A i, j \in DOMAIN fl :
                   i < j => \/ SeverityRank(fl[i]) < SeverityRank(fl[j])
                            \/ SeverityRank(fl[i]) = SeverityRank(fl[j]) /\ LexLeq(fl[i], fl[j])

\* C12 amended: the flags have no severity and are not sorted: the summary
\* section lists them in the fixed order in which check_flags evaluates
\* its three rules (missing 1004MC addendum, missing VA MPR reference,
\* signature without date), each at most once; the VA finding is listed
\* after the finding of the missing market-conditions addendum.
C12_RuleOrder ==
    \A w \in Workers :
        (pc[w] = "returned" /\ RenderedStyle(w) = "v27") =>
            LET fl == Listed(result[w])
                order == <<"Missing 1004MC addendum.",
                           "No VA MPR references found despite VA loan indicators.",
                           "Signature and date inconsistencies noted.">>
            IN /\ fl = flags[w]
               /\ \A i \in DOMAIN fl : \E k \in DOMAIN order : fl[i] = order[k]
               /\ \A i, j \in DOMAIN fl : \A k, l \in DOMAIN order :
                      (i < j /\ fl[i] = order[k] /\ fl[j] = order[l]) => k < l

\* C12 witness: a report lists the missing addendum and then the VA
\* finding
C12_Witness ==
    \E w \in Workers :
        /\ pc[w] = "returned" /\ RenderedStyle(w) = "v27"
        /\ Len(Listed(result[w])) >= 2
        /\ Listed(result[w])[1] = "Missing 1004MC addendum."
        /\ Has(Listed(result[w])[2], "VA")

\* the lines of a report
Lines(report) == LET ls == SplitLines(report, 1) IN {ls[i] : i \in DOMAIN ls}

\* some line of the set starts with the label
Labelled(ls, label) == \E l \in ls : Sub(l, 1, Len(label)) = label

C20_NoRequestToPrivateAddress ==
    \A w \in Workers :
        (pc[w] # "idle" /\ request[w].route = "audit_url" /\ request[w].given
            /\ ~host_in_allowlist(request[w].url.host)) =>
            /\ \A i \in DOMAIN sent[w] : ~is_private_ip(sent[w][i].to)
            /\ (\E ip \in request[w].url.dns : is_private_ip(ip)) =>
                   /\ sent[w] = <<>>
                   /\ pc[w] = "responded" /\ response[w].status = 400
                   /\ calls[w] = <<>>

(***************************************************************************)
(* C21, C22: the HEAD request and the size of the download                 *)
(***************************************************************************)
\* the download of the request of w has sent its HEAD request and got an answer
HeadAnswered(w) ==
    /\ pc[w] # "idle" /\ request[w].route = "audit_url" /\ request[w].given
    /\ \E i \in DOMAIN sent[w] : sent[w][i].method = "HEAD"

\* run_audit has been called for the request of w
RunAuditInvoked(w) ==
    /\ pc[w] # "idle"
    /\ ~(pc[w] = "responded" /\ response[w].status = 400)

\* C21 as the claim states it: when the answer to HEAD announces a
\* Content-Length over max_bytes, the download is rejected with 'Remote file
\* is larger than allowed limit.' and no GET request is sent; when the
\* answer to HEAD has a status of 400 or more, the download is rejected with
\* 'HEAD failed'.
C21_HeadRejects ==
    \A w \in Workers :
        HeadAnswered(w) =>
            /\ head_check(request[w].url, MAX_CONTENT_LENGTH) = TOO_LARGE =>
                   /\ pc[w] = "responded" /\ response[w].status = 400
                   /\ Has(response[w].body, TOO_LARGE)
                   /\ \A i \in DOMAIN sent[w] : sent[w][i].method # "GET"
            /\ request[w].url.head_status >= 400 =>
                   /\ pc[w] = "responded" /\ response[w].status = 400
                   /\ Has(response[w].body, HEAD_FAILED)

\* the answer to GET of the url u is one the download reads the body of
BodyRead(u) ==
    /\ u.connect # "" /\ u.status < 400
    /\ Has(Lower(u.ctype), "pdf") \/ Has(Lower(u.ctype), "application/octet-stream") \/ u.pdf

\* C22: whenever the download returns, the bytes it returns are at most
\* max_bytes long, whatever chunks the server streams; run_audit is called
\* from /audit_url with these bytes only, so with at most MAX_CONTENT_LENGTH
\* bytes; and a body that is longer than the limit ends in the 400 of
\* 'Downloaded file exceeded size limit.' without a call of run_audit.
C22_SizeBound ==
    \A w \in Workers :
        (pc[w] # "idle" /\ request[w].route = "audit_url" /\ request[w].given) =>
            LET Bounded(raw, body) ==
                    /\ raw.error = "" => raw.length <= MAX_CONTENT_LENGTH
                    /\ RunAuditInvoked(w) =>
                           /\ raw.error = ""
                           /\ request[w].file.size = raw.length
                           /\ request[w].file.size <= MAX_CONTENT_LENGTH
                    /\ (sent[w] # <<>> /\ BodyRead(request[w].url) /\ body > MAX_CONTENT_LENGTH) =>
                           /\ pc[w] = "responded" /\ response[w].status = 400
                           /\ Has(response[w].body, EXCEEDED)
                           /\ calls[w] = <<>>
            IN Bounded(download_url_to_bytes(request[w].url, request[w].file, MAX_CONTENT_LENGTH),
                       BodyLength(iter_content(request[w].url, request[w].file), 1))

\* a body of exactly MAX_CONTENT_LENGTH bytes in two chunks has been
\* downloaded and run_audit is about to run on it
C22_Witness ==
    \E w \in Workers :
        /\ pc[w] = "run_audit" /\ request[w].route = "audit_url"
        /\ Len(request[w].url.chunks) = 2
        /\ request[w].file.size = MAX_CONTENT_LENGTH

(***************************************************************************)
(* C23: the hard fallback of extract_text_with_azure                       *)
(***************************************************************************)
\* the call of Azure for the request of w has been made and has failed
OcrFailed(w) == Count(w, "begin_analyze_document") >= 1 /\ request[w].file.ocr = "fail"

\* C23 as the claim states it: when the call of Azure fails and the local
\* extraction of the bytes yields text, extract_text_with_azure returns
\* that text, normalized; and it raises only when the call of Azure fails
\* and the local extraction yields no text.
C23_RaisesOnlyAfterOcr ==
    \A w \in Workers :
        LET f == request[w].file
        IN /\ (OcrFailed(w) /\ HasTextLayer(f)) =>
                  /\ exc[w] = ""
                  /\ text[w] = normalize_text(f.doc)
           /\ exc[w] # "" => OcrFailed(w) /\ ~HasTextLayer(f)

\* C23 amended: when the call of Azure fails, extract_text_with_azure
\* returns the normalized text of the local extraction if that text is not
\* empty, and raises the RuntimeError of the extraction if it is empty
\* (fitz cannot open the bytes, the pages have no text layer, or the layer
\* holds white space only).  It also raises before any call of Azure, for
\* bytes that start with %PDF and are encrypted or make fitz.open raise a
\* RuntimeError.
C23_HardFallback ==
    \A w \in Workers :
        LET f == request[w].file
        IN /\ (OcrFailed(w) /\ HasTextLayer(f)) =>
                  /\ exc[w] = ""
                  /\ text[w] = normalize_text(f.doc)
                  /\ Count(w, "extract_text_with_pymupdf") >= 1
           /\ (OcrFailed(w) /\ ~HasTextLayer(f)) => exc[w] = EXTRACTION_ERROR
           /\ exc[w] # "" =>
                  \/ exc[w] = EXTRACTION_ERROR /\ OcrFailed(w) /\ ~HasTextLayer(f)
                  \/ /\ exc[w] \in {ENCRYPTED_ERROR, FITZ_ERROR}
                     /\ f.magic /\ f.fitz \in {"needs_pass", "RuntimeError"}
                     /\ Count(w, "begin_analyze_document") = 0

\* C23 witness: Azure failed on a PDF with a text layer, and the report was
\* made from the text of the layer
C23_Witness ==
    \E w \in Workers :
        /\ pc[w] = "returned"
        /\ request[w].file = F_TEXT_NO_OCR
        /\ OcrFailed(w)
        /\ text[w] = normalize_text(DOC_VA)
        /\ exc[w] = ""

(***************************************************************************)
(* C24: the VA metadata                                                    *)
(***************************************************************************)
\* the text of the call names the minimum property requirements
MprGiven ==
    /\ alone_arg.kind = "va"
    /\ alone_arg.parts[3] \in {"MPR reviewed", "Minimum Property\nRequirements are met"}

\* C24: for every text, extract_metadata returns is_va_loan as "Yes" or
\* "No", and "Yes" whenever va_case_number is not empty; so no report shows
\* a VA case number next to 'Is VA Loan = No' (v27) or to the line of a
\* non-VA report (analyst view), and for a text with a VA case number
\* check_flags evaluates the MPR rule: the VA finding is raised exactly when
\* the text does not name the minimum property requirements.
C24_VaInvariant ==
    alone_fn = "run_audit: compose" =>
        /\ alone_ret.md.is_va_loan \in {"Yes", "No"}
        /\ alone_ret.md.va_case_number # "" => alone_ret.md.is_va_loan = "Yes"
        /\ Has(alone_ret.text, "-> VA Case Number = ") =>
               /\ Has(alone_ret.text, "-> Is VA Loan = Yes\n")
               /\ ~Has(alone_ret.text, "-> Is VA Loan = No")
        /\ Has(alone_ret.analyst, "VA Case Number: ") => ~Has(alone_ret.analyst, "(non-VA report)")
        /\ alone_ret.md.va_case_number # "" =>
               ((\E i \in DOMAIN alone_ret.flags : alone_ret.flags[i] = FLAG_VA) <=> ~MprGiven)

\* C24 witness: a text without any indicator of a VA loan and with a VA
\* case number has been audited: it is a VA loan, the report shows the
\* number, and the VA finding is raised
C24_Witness ==
    /\ alone_fn = "run_audit: compose"
    /\ alone_arg.kind = "va" /\ alone_arg.parts = <<"Vacant land\n", "2626a123456 ", "">>
    /\ alone_ret.md.va_case_number = "26-26-A-1234560"
    /\ alone_ret.md.is_va_loan = "Yes"
    /\ Has(alone_ret.text, "-> VA Case Number = 26-26-A-1234560\n")
    /\ Has(alone_ret.analyst, "VA Case Number: 26-26-A-1234560")
    /\ \E i \in DOMAIN alone_ret.flags : alone_ret.flags[i] = FLAG_VA


====
